---- MODULE Spec2Model ----
(***************************************************************************)
(* Model of the hybrid timetable optimisation engine:                      *)
(*   - HybridOptimizer.optimize (utils/hybridOptimizer.ts): validation,    *)
(*     the simulated progress loop and the constructive placement          *)
(*     (tryPlaceOneOnDay, pass 1, pass 2);                                 *)
(*   - GeneticAlgorithm.repairSchedule / mutate / crossover and the        *)
(*     generation loop of runGeneticEvolution.                             *)
(* Times "HH:MM" are modelled by integers (zero-padded strings compare as  *)
(* the numbers do); occupancy keys `${a}|${b}` are modelled by tuples.     *)
(***************************************************************************)
EXTENDS Integers, Sequences, FiniteSets, TLC

VARIABLES
    \* ---- the optimizer's input (constructor arguments) ----
    courses, teachers, rooms, timeSlots, subjects, semesterParity,
    \* ---- HybridOptimizer.optimize ----
    pc,                 \* position in optimize
    i,                  \* loop variable of the simulated progress loop
    progressLog,        \* the calls made to onProgress, in order
    testSchedule,       \* the schedule under construction
    occupiedByTeacher,  \* set of <<teacherId, slotId>>
    occupiedByRoom,     \* set of <<roomId, slotId>>
    occupiedBySection,  \* set of <<courseId, section, slotId>>
    ci, si,             \* index of the current course / section
    demand,             \* demand units of the current (course, section)
    sectionTeacherAssignments, \* subjectId -> teacherId of the current section
    di,                 \* index into rotatedDays
    placedSomething,    \* pass 1 flag
    tryMore,            \* pass 2 per-day cap
    result,             \* the OptimizationResult returned (or NoResult)
    \* ---- GeneticAlgorithm.repairSchedule applied repeatedly ----
    repairInput,        \* the schedule handed to the first repair
    repairRuns,         \* the outputs of the successive repairs, in order
    \* ---- HybridOptimizer.runGeneticEvolution ----
    gaPc,               \* position in runGeneticEvolution
    params,             \* GeneticAlgorithmParams (rates in thousandths)
    heap,               \* the ClassSchedule objects: reference -> fields
    population,         \* the individuals; a schedule is a list of references
    newPopulation,      \* the population under construction
    bestIndividual,     \* best-ever individual
    generation,         \* loop variable of the generation loop
    stagnationCount, currentMutationRate, lastBestFitness,
    generationData,     \* the GenerationData records pushed so far
    gaProgressLog,      \* the calls made to onProgress, in order
    gaResult,           \* the OptimizationResult returned (or NoResult)
    elitesBefore,       \* history: the elites as they were when carried over
    \* ---- CPSATSolver.solve ----
    cspPc,              \* position in solve
    variables,          \* this.variables: the Variable records, in Map order
    constraintList,     \* this.constraintList
    changed, iterations, \* locals of constraintPropagation
    assignment,         \* what backtrackingSearch returned (NoAssignment: null)
    cspResult,          \* the OptimizationResult returned (or NoResult)
    \* ---- GeneticAlgorithm.calculateFitness applied to two schedules ----
    evalSchedules,      \* the two schedules evaluated
    evalFitness,        \* their fitness values (<<>> before the evaluation)
    \* ---- the caller of the optimizer ----
    constructedWith,    \* history: the collections as they were at construction
    callerWrites,       \* number of changes the caller made to them since
    \* ---- the two detectConflicts applied to one schedule ----
    detected,           \* <<CPSATSolver's conflicts, GeneticAlgorithm's conflicts>>
    \* ---- the App component ----
    app,                \* its state: currentView, optimizationData, optimizationResult, ...
    runs,               \* the calls of startOptimization, in the order they started
    \* ---- history of runGeneticEvolution ----
    bestBefore          \* history: best-ever fitness when the last finished generation began

inputVars == <<courses, teachers, rooms, timeSlots, subjects, semesterParity>>
evoVars == <<gaPc, params, heap, population, newPopulation, bestIndividual, generation,
             stagnationCount, currentMutationRate, lastBestFitness, generationData,
             gaProgressLog, gaResult, elitesBefore, bestBefore>>
cspVars == <<cspPc, variables, constraintList, changed, iterations, assignment, cspResult>>
appVars == <<app, runs>>
auxVars == <<evalSchedules, evalFitness, constructedWith, callerWrites, detected, appVars>>
gaVars == <<repairInput, repairRuns, evoVars, cspVars, auxVars>>
optVars == <<pc, i, progressLog, testSchedule, occupiedByTeacher, occupiedByRoom,
             occupiedBySection, ci, si, demand, sectionTeacherAssignments, di,
             placedSomething, tryMore, result>>

-----------------------------------------------------------------------------
(* Bounds and pools the inputs are drawn from *)

MaxSlots == 3

dayOrder == <<"Monday", "Tuesday", "Wednesday", "Thursday", "Friday">>

\* (day, startTime, endTime) shapes of the time slots of the general inputs
SlotShapes ==
    { [day |-> "Monday",  startTime |-> 9,  endTime |-> 10],
      [day |-> "Monday",  startTime |-> 10, endTime |-> 11],
      [day |-> "Tuesday", startTime |-> 9,  endTime |-> 10] }

SlotIds == <<"s1", "s2", "s3", "s4", "s5", "s6", "s7", "s8", "s9", "s10">>

MkSlot(k, sh) ==
    [id |-> SlotIds[k], day |-> sh.day, startTime |-> sh.startTime, endTime |-> sh.endTime]

\* every list of n slots with pairwise different ids (the id is the position)
SlotLists(n) ==
    { [k \in 1..n |-> MkSlot(k, f[k])] : f \in [1..n -> SlotShapes] }

CoursePool ==
    << [id |-> "c1",  sections |-> <<"A", "B">>],
       [id |-> "c22", sections |-> <<>>] >>

SubjectPool ==
    << [id |-> "x", courseId |-> "c1",  semester |-> 1, type |-> "theory"],
       [id |-> "y", courseId |-> "c1",  semester |-> 2, type |-> "lab"],
       [id |-> "z", courseId |-> "c22", semester |-> 3, type |-> "theory"] >>

\* t1 has no availability entry, t2 is available at s1 on Monday
TeacherPool ==
    << [id |-> "t1", taughtSubjectIds |-> {},         departmentCourseId |-> "c1",
        availability |-> {}],
       [id |-> "t2", taughtSubjectIds |-> {"x", "z"}, departmentCourseId |-> "",
        availability |-> {[day |-> "Monday", timeSlots |-> {"s1"}]}] >>

RoomPool ==
    << [id |-> "r1", type |-> "theory"],
       [id |-> "r2", type |-> "lab"] >>

Parities == {"", "odd", "even"}   \* "" is `undefined`

Prefix(pool, n) == SubSeq(pool, 1, n)

\* the subsequence of pool at the indices in S
RECURSIVE SubSeqAt(_, _, _)
SubSeqAt(pool, S, k) ==
    IF k > Len(pool) THEN <<>>
    ELSE (IF k \in S THEN <<pool[k]>> ELSE <<>>) \o SubSeqAt(pool, S, k + 1)

-----------------------------------------------------------------------------
(* Scenario A of the specification: 1 course with 2 sections, 1 theory      *)
(* subject, 1 qualified teacher, 1 theory room, 10 slots, 2 per day.        *)

SectionLabels == {"A", "B", "C", "D", "E"}

CourseIdsByLength == {"c", "c1", "c22", "c333", "c4444"}

ScenarioASlots ==
    [k \in 1..10 |->
        [id |-> SlotIds[k], day |-> dayOrder[((k - 1) \div 2) + 1],
         startTime |-> 9 + ((k - 1) % 2), endTime |-> 10 + ((k - 1) % 2)]]

-----------------------------------------------------------------------------
(* Pure helpers of HybridOptimizer.optimize *)

NoResult == [kind |-> "none"]

CharCode(ch) ==
    CASE ch = "A" -> 65 [] ch = "B" -> 66 [] ch = "C" -> 67
      [] ch = "D" -> 68 [] ch = "E" -> 69

\* Array.prototype.filter: the elements of s at the indices in S, in order
Filter(s, S) == SubSeqAt(s, S, 1)

\* mutant: the parity filter lets every subject through
PassesParity_NoFilter(s) == TRUE

\* the semester-parity filter
PassesParity(s) ==
    IF semesterParity = "" THEN TRUE
    ELSE IF semesterParity = "odd" THEN s.semester % 2 = 1
    ELSE s.semester % 2 = 0

filteredSubjects == Filter(subjects, {k \in 1..Len(subjects) : PassesParity(subjects[k])})

RECURSIVE InsertByStart(_, _)
\* insert slot into a list sorted by startTime, after the entries that compare equal
InsertByStart(sorted, slot) ==
    IF sorted = <<>> THEN <<slot>>
    ELSE IF Head(sorted).startTime <= slot.startTime
         THEN <<Head(sorted)>> \o InsertByStart(Tail(sorted), slot)
         ELSE <<slot>> \o sorted

RECURSIVE SortByStart(_)
\* the stable sort by startTime
SortByStart(s) ==
    IF s = <<>> THEN <<>>
    ELSE InsertByStart(SortByStart(SubSeq(s, 1, Len(s) - 1)), s[Len(s)])

\* dayToSlots[day] || []
dayToSlots(day) ==
    SortByStart(Filter(timeSlots, {k \in 1..Len(timeSlots) : timeSlots[k].day = day}))

\* courseIdToSubjects[course.id] || []
courseIdToSubjects(courseId) ==
    LET fs == filteredSubjects
    IN  Filter(fs, {k \in 1..Len(fs) : fs[k].courseId = courseId})

\* the sections of a course, ['A'] when it has none
SectionsOf(course) ==
    IF Len(course.sections) > 0 THEN course.sections ELSE <<"A">>

\* the days starting at the section's rotation
rotatedDays(course, section) ==
    LET rot == (CharCode(section) + Len(course.id)) % Len(dayOrder)
    IN  SubSeq(dayOrder, rot + 1, Len(dayOrder)) \o SubSeq(dayOrder, 1, rot)

\* mutant: one weekly session for every subject
InitialDemand_OneSession(subjectsForCourse) ==
    [k \in 1..Len(subjectsForCourse) |->
        [subject |-> subjectsForCourse[k], remaining |-> 1, usedDays |-> {}]]

\* the demand list of a section: theory 2, lab 1
InitialDemand(subjectsForCourse) ==
    [k \in 1..Len(subjectsForCourse) |->
        [subject |-> subjectsForCourse[k],
         remaining |-> IF subjectsForCourse[k].type = "lab" THEN 1 ELSE 2,
         usedDays |-> {}]]

RECURSIVE SumRemaining(_)
SumRemaining(dem) ==
    IF dem = <<>> THEN 0 ELSE Head(dem).remaining + SumRemaining(Tail(dem))

\* demand.reduce((a, b) => a + b.remaining, 0)
remainingTotal == SumRemaining(demand)

\* mutant: the days already used by the subject are not looked at
CanGoToday_AnyDay(d, day) == d.remaining > 0

\* d.remaining > 0 && !d.usedDays.has(day)
CanGoToday(d, day) == d.remaining > 0 /\ day \notin d.usedDays

\* demand.findIndex(...), 0 for -1
FindDemandIndex(day) ==
    LET ok == {k \in 1..Len(demand) : CanGoToday(demand[k], day)}
    IN  IF ok = {} THEN 0 ELSE CHOOSE k \in ok : \A m \in ok : k <= m

\* the occupancy key of a teacher or a room at a slot
ResourceKey(resourceId, slot) == <<resourceId, slot.id>>

\* the occupancy key of a section at a slot
SectionKey(courseId, section, slot) == <<courseId, section, slot.id>>

\* teachers qualified for the subject and free at the slot
availableTeachers(course, d, slot) ==
    LET Ok(t) == (d.subject.id \in t.taughtSubjectIds \/ t.departmentCourseId = course.id)
                 /\ ResourceKey(t.id, slot) \notin occupiedByTeacher
    IN  Filter(teachers, {k \in 1..Len(teachers) : Ok(teachers[k])})

\* prefer a teacher not yet assigned to a subject of this section
ChooseTeacher(avail) ==
    LET assigned == {sectionTeacherAssignments[k] : k \in DOMAIN sectionTeacherAssignments}
        Fresh(t) == t.id \notin assigned
        unassignedTeachers == Filter(avail, {k \in 1..Len(avail) : Fresh(avail[k])})
    IN  IF Len(unassignedTeachers) > 0 THEN unassignedTeachers[1] ELSE avail[1]

\* rooms of the subject's type that are free at the slot
FreeRooms(d, slot) ==
    LET Ok(r) == r.type = d.subject.type /\ ResourceKey(r.id, slot) \notin occupiedByRoom
    IN  Filter(rooms, {k \in 1..Len(rooms) : Ok(rooms[k])})

NoPlacement == [placed |-> FALSE]

RECURSIVE TrySlots(_, _, _, _, _)
\* the loop over the day's slots of tryPlaceOneOnDay
TrySlots(course, section, idx, slots, k) ==
    IF k > Len(slots) THEN NoPlacement
    ELSE LET slot == slots[k]
             d == demand[idx]
             avail == availableTeachers(course, d, slot)
             free == FreeRooms(d, slot)
         IN  IF Len(avail) = 0 THEN TrySlots(course, section, idx, slots, k + 1)
             ELSE IF Len(free) = 0 THEN TrySlots(course, section, idx, slots, k + 1)
             ELSE IF SectionKey(course.id, section, slot) \in occupiedBySection
                  THEN TrySlots(course, section, idx, slots, k + 1)
             ELSE [placed |-> TRUE, idx |-> idx, slot |-> slot,
                   teacher |-> ChooseTeacher(avail), room |-> free[1]]

\* tryPlaceOneOnDay(day): the placement it makes, or NoPlacement
tryPlaceOneOnDay(course, section, day) ==
    LET idx == FindDemandIndex(day)
    IN  IF idx = 0 THEN NoPlacement
        ELSE TrySlots(course, section, idx, dayToSlots(day), 1)

\* the ClassSchedule record pushed for a placement
MkAssignment(course, section, p) ==
    [id |-> <<"sched", course.id, section, demand[p.idx].subject.id, p.slot.id>>,
     courseId |-> course.id,
     subjectId |-> demand[p.idx].subject.id,
     section |-> section,
     semester |-> demand[p.idx].subject.semester,
     teacherId |-> p.teacher.id,
     roomId |-> p.room.id,
     timeSlotId |-> p.slot.id,
     day |-> p.slot.day,
     startTime |-> p.slot.startTime,
     endTime |-> p.slot.endTime]

\* the demand list after a placement on `day`
DemandAfter(p, day) ==
    [demand EXCEPT ![p.idx] =
        [@ EXCEPT !.remaining = @ - 1, !.usedDays = @ \cup {day}]]

curCourse == courses[ci]
curSection == SectionsOf(curCourse)[si]
curDay == rotatedDays(curCourse, curSection)[di]

\* the state changes of a successful tryPlaceOneOnDay
ApplyPlacement(p, day) ==
    /\ testSchedule' = Append(testSchedule, MkAssignment(curCourse, curSection, p))
    /\ sectionTeacherAssignments' =
          [k \in DOMAIN sectionTeacherAssignments \cup {demand[p.idx].subject.id} |->
              IF k = demand[p.idx].subject.id THEN p.teacher.id
              ELSE sectionTeacherAssignments[k]]
    /\ occupiedByTeacher' = occupiedByTeacher \cup {ResourceKey(p.teacher.id, p.slot)}
    /\ occupiedByRoom' = occupiedByRoom \cup {ResourceKey(p.room.id, p.slot)}
    /\ occupiedBySection' =
          occupiedBySection \cup {SectionKey(curCourse.id, curSection, p.slot)}
    /\ demand' = DemandAfter(p, day)

NoPlacementMade ==
    UNCHANGED <<testSchedule, sectionTeacherAssignments, occupiedByTeacher,
                occupiedByRoom, occupiedBySection, demand>>

-----------------------------------------------------------------------------
(* HybridOptimizer.optimize as a state machine *)

vars == <<inputVars, optVars, gaVars>>

OptIdle ==
    /\ pc = "start" /\ i = 0 /\ progressLog = <<>> /\ testSchedule = <<>>
    /\ occupiedByTeacher = {} /\ occupiedByRoom = {} /\ occupiedBySection = {}
    /\ ci = 1 /\ si = 1 /\ demand = <<>> /\ sectionTeacherAssignments = <<>>
    /\ di = 1 /\ placedSomething = FALSE /\ tryMore = 0 /\ result = NoResult

\* general inputs: every slot list up to MaxSlots, prefixes / sub-lists of the pools
InitGeneral ==
    /\ timeSlots \in UNION {SlotLists(n) : n \in 0..MaxSlots}
    /\ courses \in {Prefix(CoursePool, n) : n \in 0..Len(CoursePool)}
    /\ subjects \in {Prefix(SubjectPool, n) : n \in 0..Len(SubjectPool)}
    /\ teachers \in {SubSeqAt(TeacherPool, S, 1) : S \in SUBSET (1..Len(TeacherPool))}
    /\ rooms \in {SubSeqAt(RoomPool, S, 1) : S \in SUBSET (1..Len(RoomPool))}
    /\ semesterParity \in Parities

\* Scenario A, for every course id length and every two section labels
InitScenarioA ==
    /\ timeSlots = ScenarioASlots
    /\ \E cid \in CourseIdsByLength : \E a, b \in SectionLabels :
          /\ a # b
          /\ courses = << [id |-> cid, sections |-> <<a, b>>] >>
          /\ subjects = << [id |-> "x", courseId |-> cid, semester |-> 1, type |-> "theory"] >>
    /\ teachers = << TeacherPool[2] >>
    /\ rooms = << [id |-> "r1", type |-> "theory"] >>
    /\ semesterParity = ""

EvoIdle ==
    /\ gaPc = "idle"
    /\ params = <<>>
    /\ heap = <<>>
    /\ population = <<>>
    /\ newPopulation = <<>>
    /\ bestIndividual = <<>>
    /\ generation = 0
    /\ stagnationCount = 0
    /\ currentMutationRate = 0
    /\ lastBestFitness = 0
    /\ bestBefore = 0
    /\ generationData = <<>>
    /\ gaProgressLog = <<>>
    /\ gaResult = NoResult
    /\ elitesBefore = <<>>

\* backtrackingSearch returned null
NoAssignment == [found |-> FALSE, map |-> <<>>]

CspIdle ==
    /\ cspPc = "idle"
    /\ variables = <<>>
    /\ constraintList = <<>>
    /\ changed = FALSE
    /\ iterations = 0
    /\ assignment = NoAssignment
    /\ cspResult = NoResult

\* the useState initial values of App
AppInitial ==
    [currentView |-> "input", optimizationData |-> 0, optimizationResult |-> 0,
     isOptimizing |-> FALSE, progress |-> 0, generation |-> 0, bestFitness |-> 0,
     generationData |-> 0]

AppIdle == app = AppInitial /\ runs = <<>>

AuxIdle ==
    /\ evalSchedules = <<>> /\ evalFitness = <<>>
    /\ constructedWith = <<>> /\ callerWrites = 0
    /\ detected = <<>>
    /\ AppIdle

GaIdle == repairInput = <<>> /\ repairRuns = <<>> /\ EvoIdle /\ CspIdle /\ AuxIdle

Init == (InitGeneral \/ InitScenarioA) /\ OptIdle /\ GaIdle

loopVars == <<ci, si, demand, sectionTeacherAssignments, di, placedSomething, tryMore>>
schedVars == <<testSchedule, occupiedByTeacher, occupiedByRoom, occupiedBySection>>

\* mutant: the guard forgets the teachers
Validate_NoTeacherCheck ==
    /\ pc = "start"
    /\ IF Len(courses) = 0 \/ Len(rooms) = 0
       THEN pc' = "rejected"
       ELSE pc' = "progress"
    /\ i' = 0
    /\ UNCHANGED <<progressLog, result, loopVars, schedVars, inputVars, gaVars>>

\* the guard at the top of optimize: throw, or enter the progress loop
Validate ==
    /\ pc = "start"
    /\ IF Len(courses) = 0 \/ Len(teachers) = 0 \/ Len(rooms) = 0
       THEN pc' = "rejected"
       ELSE pc' = "progress"
    /\ i' = 0
    /\ UNCHANGED <<progressLog, result, loopVars, schedVars, inputVars, gaVars>>

\* one iteration of the simulated progress loop: onProgress, then the await
Progress ==
    /\ pc = "progress" /\ i <= 100
    /\ progressLog' = Append(progressLog, <<i, i \div 10, 50 + i * 5>>)
    /\ i' = i + 10
    /\ UNCHANGED <<pc, result, loopVars, schedVars, inputVars, gaVars>>

\* after the loop: build only when there are subjects and time slots
BeginBuild ==
    /\ pc = "progress" /\ i > 100
    /\ pc' = IF Len(subjects) > 0 /\ Len(timeSlots) > 0 THEN "course" ELSE "return"
    /\ ci' = 1
    /\ UNCHANGED <<i, progressLog, result, si, demand, sectionTeacherAssignments, di,
                   placedSomething, tryMore, schedVars, inputVars, gaVars>>

\* for (const course of this.courses): skip a course without subjects
NextCourse ==
    /\ pc = "course"
    /\ IF ci > Len(courses) THEN pc' = "return" /\ UNCHANGED <<ci, si>>
       ELSE IF Len(courseIdToSubjects(courses[ci].id)) = 0
            THEN pc' = "course" /\ ci' = ci + 1 /\ UNCHANGED si
            ELSE pc' = "section" /\ si' = 1 /\ UNCHANGED ci
    /\ UNCHANGED <<i, progressLog, result, demand, sectionTeacherAssignments, di,
                   placedSomething, tryMore, schedVars, inputVars, gaVars>>

\* for (const section of sections): fresh demand and teacher map
NextSection ==
    /\ pc = "section"
    /\ IF si > Len(SectionsOf(curCourse))
       THEN /\ pc' = "course" /\ ci' = ci + 1
            /\ UNCHANGED <<demand, sectionTeacherAssignments>>
       ELSE /\ pc' = "p1while"
            /\ demand' = InitialDemand(courseIdToSubjects(curCourse.id))
            /\ sectionTeacherAssignments' = <<>>
            /\ UNCHANGED ci
    /\ UNCHANGED <<i, progressLog, result, si, di, placedSomething, tryMore,
                   schedVars, inputVars, gaVars>>

\* pass 1: while (remainingTotal > 0) { placedSomething = false; for ... }
Pass1While ==
    /\ pc = "p1while"
    /\ IF remainingTotal > 0
       THEN pc' = "p1day" /\ placedSomething' = FALSE /\ di' = 1
       ELSE pc' = "p2start" /\ UNCHANGED <<placedSomething, di>>
    /\ UNCHANGED <<i, progressLog, result, ci, si, demand, sectionTeacherAssignments,
                   tryMore, schedVars, inputVars, gaVars>>

\* pass 1: one day of the sweep over rotatedDays, and the end of the sweep
Pass1Day ==
    /\ pc = "p1day"
    /\ IF di > Len(dayOrder)
       THEN /\ pc' = IF placedSomething THEN "p1while" ELSE "p2start"
            /\ UNCHANGED <<di, placedSomething>>
            /\ NoPlacementMade
       ELSE IF remainingTotal <= 0
       THEN /\ di' = Len(dayOrder) + 1
            /\ UNCHANGED <<pc, placedSomething>>
            /\ NoPlacementMade
       ELSE LET p == tryPlaceOneOnDay(curCourse, curSection, curDay)
            IN  /\ IF p.placed
                   THEN ApplyPlacement(p, curDay) /\ placedSomething' = TRUE
                   ELSE NoPlacementMade /\ UNCHANGED placedSomething
                /\ di' = di + 1
                /\ UNCHANGED pc
    /\ UNCHANGED <<i, progressLog, result, ci, si, tryMore, inputVars, gaVars>>

\* pass 2 is entered only when demand remains
Pass2Start ==
    /\ pc = "p2start"
    /\ IF remainingTotal > 0
       THEN pc' = "p2day" /\ di' = 1 /\ tryMore' = 3 /\ UNCHANGED si
       ELSE pc' = "section" /\ si' = si + 1 /\ UNCHANGED <<di, tryMore>>
    /\ UNCHANGED <<i, progressLog, result, ci, demand, sectionTeacherAssignments,
                   placedSomething, schedVars, inputVars, gaVars>>

\* pass 2: up to 3 extra placements per day
Pass2Day ==
    /\ pc = "p2day"
    /\ IF di > Len(dayOrder)
       THEN /\ pc' = "section" /\ si' = si + 1
            /\ UNCHANGED <<di, tryMore>>
            /\ NoPlacementMade
       ELSE IF tryMore > 0 /\ \E k \in 1..Len(demand) : demand[k].remaining > 0
       THEN LET p == tryPlaceOneOnDay(curCourse, curSection, curDay)
            IN  /\ IF p.placed
                   THEN ApplyPlacement(p, curDay) /\ tryMore' = tryMore - 1 /\ UNCHANGED di
                   ELSE NoPlacementMade /\ di' = di + 1 /\ tryMore' = 3
                /\ UNCHANGED <<pc, si>>
       ELSE /\ di' = di + 1 /\ tryMore' = 3
            /\ UNCHANGED <<pc, si>>
            /\ NoPlacementMade
    /\ UNCHANGED <<i, progressLog, result, ci, placedSomething, inputVars, gaVars>>

\* the OptimizationResult optimize returns
Return ==
    /\ pc = "return"
    /\ pc' = "done"
    /\ result' = [kind |-> "result",
                  schedule |-> testSchedule,
                  fitness |-> 750,
                  conflicts |-> <<>>,
                  metrics |-> [roomUtilization |-> 80, teacherWorkloadBalance |-> 90,
                               studentSatisfaction |-> 85, constraintSatisfaction |-> 95,
                               totalConflicts |-> 0]]
    /\ UNCHANGED <<i, progressLog, loopVars, schedVars, inputVars, gaVars>>

Next ==
    \/ Validate \/ Progress \/ BeginBuild \/ NextCourse \/ NextSection
    \/ Pass1While \/ Pass1Day \/ Pass2Start \/ Pass2Day \/ Return

Spec == Init /\ [][Next]_vars

-----------------------------------------------------------------------------
(* Properties of HybridOptimizer.optimize *)

SomeInputEmpty == Len(courses) = 0 \/ Len(teachers) = 0 \/ Len(rooms) = 0

\* C1: when courses, teachers or rooms is empty optimize rejects, with no call
\* to onProgress before the rejection and no result or partial schedule; when
\* all three are non-empty it does not reject.
C1_EmptyInputRejected ==
    /\ pc = "rejected" =>
          SomeInputEmpty /\ progressLog = <<>> /\ result = NoResult /\ testSchedule = <<>>
    /\ (SomeInputEmpty /\ pc # "start") => pc = "rejected"
    /\ ~SomeInputEmpty => pc # "rejected"

\* Scenario B: no teachers, courses and rooms present, optimize has rejected
C1_Witness ==
    pc = "rejected" /\ Len(teachers) = 0 /\ Len(courses) > 0 /\ Len(rooms) > 0

\* pairs of distinct positions of a schedule
Pairs(sched) == {<<a, b>> \in (1..Len(sched)) \X (1..Len(sched)) : a < b}

SameTime(u, v) == u.day = v.day /\ u.startTime = v.startTime

\* C2: the returned schedule has no two distinct assignments with the same
\* roomId, day and startTime.
C2_NoRoomDoubleBooking ==
    pc = "done" =>
        \A q \in Pairs(result.schedule) :
            LET u == result.schedule[q[1]]  v == result.schedule[q[2]]
            IN  ~(u.roomId = v.roomId /\ SameTime(u, v))

\* C3: the returned schedule has no two distinct assignments with the same
\* teacherId, day and startTime.
C3_NoTeacherDoubleBooking ==
    pc = "done" =>
        \A q \in Pairs(result.schedule) :
            LET u == result.schedule[q[1]]  v == result.schedule[q[2]]
            IN  ~(u.teacherId = v.teacherId /\ SameTime(u, v))

\* C4: the returned schedule has no two distinct assignments with the same
\* courseId, section, day and startTime.
C4_NoSectionDoubleBooking ==
    pc = "done" =>
        \A q \in Pairs(result.schedule) :
            LET u == result.schedule[q[1]]  v == result.schedule[q[2]]
            IN  ~(u.courseId = v.courseId /\ u.section = v.section /\ SameTime(u, v))

\* the Subject record with the given id (ids are unique in the inputs)
SubjectById(id) == CHOOSE s \in {subjects[k] : k \in 1..Len(subjects)} : s.id = id

SameDemandUnit(u, v) ==
    u.courseId = v.courseId /\ u.section = v.section /\ u.subjectId = v.subjectId

IsTheory(u) == SubjectById(u.subjectId).type # "lab"

\* C5: at every point of the placement (so after pass 1 and after pass 2) and
\* in the returned schedule, two assignments of the same theory subject for the
\* same (course, section) are on different days.
C5_TheoryOnDistinctDays ==
    /\ \A q \in Pairs(testSchedule) :
          LET u == testSchedule[q[1]]  v == testSchedule[q[2]]
          IN  (SameDemandUnit(u, v) /\ IsTheory(u)) => u.day # v.day
    /\ pc = "done" => result.schedule = testSchedule

\* pass 2 has swept every day, and some theory subject has its two sessions
C5_Witness ==
    /\ pc = "p2day" /\ di > Len(dayOrder)
    /\ \E q \in Pairs(testSchedule) :
          SameDemandUnit(testSchedule[q[1]], testSchedule[q[2]])
          /\ IsTheory(testSchedule[q[1]])

\* the assignments of a schedule for one demand unit
CountFor(sched, courseId, section, subjectId) ==
    Cardinality({k \in 1..Len(sched) :
        sched[k].courseId = courseId /\ sched[k].section = section
        /\ sched[k].subjectId = subjectId})

\* the subject's semester has the parity the run was not asked for
ExcludedByParity(s) ==
    \/ semesterParity = "odd" /\ s.semester % 2 = 0
    \/ semesterParity = "even" /\ s.semester % 2 = 1

\* C6: a demand unit has at most 2 assignments (theory) or 1 (lab), the
\* remaining-session counter is never negative, and a subject excluded by the
\* parity filter has no assignment.
C6_SessionCounts ==
    /\ \A k \in 1..Len(demand) : demand[k].remaining >= 0
    /\ \A k \in 1..Len(testSchedule) :
          LET u == testSchedule[k]
          IN  /\ ~ExcludedByParity(SubjectById(u.subjectId))
              /\ CountFor(testSchedule, u.courseId, u.section, u.subjectId)
                    <= (IF SubjectById(u.subjectId).type = "lab" THEN 1 ELSE 2)
    /\ pc = "done" => result.schedule = testSchedule

\* a parity is set, it excludes a subject, and a theory unit got both sessions
C6_Witness ==
    /\ pc = "done" /\ semesterParity # ""
    /\ \E k \in 1..Len(subjects) : ExcludedByParity(subjects[k])
    /\ \E k \in 1..Len(testSchedule) :
          LET u == testSchedule[k]
          IN  CountFor(testSchedule, u.courseId, u.section, u.subjectId) = 2

\* the input is Scenario A: 1 course with 2 sections, 1 theory subject, 1
\* teacher qualified for it, 1 theory room, 10 slots, 2 per weekday
IsScenarioA ==
    /\ Len(courses) = 1 /\ Len(courses[1].sections) = 2
    /\ courses[1].sections[1] # courses[1].sections[2]
    /\ Len(subjects) = 1 /\ subjects[1].type = "theory"
    /\ subjects[1].courseId = courses[1].id /\ PassesParity(subjects[1])
    /\ Len(teachers) = 1
    /\ (subjects[1].id \in teachers[1].taughtSubjectIds
        \/ teachers[1].departmentCourseId = courses[1].id)
    /\ Len(rooms) = 1 /\ rooms[1].type = "theory"
    /\ Len(timeSlots) = 10
    /\ \A d \in 1..Len(dayOrder) :
          LET on == {k \in 1..10 : timeSlots[k].day = dayOrder[d]}
          IN  /\ Cardinality(on) = 2
              /\ \A k, m \in on : k # m => timeSlots[k].startTime # timeSlots[m].startTime

\* C7: in Scenario A the returned schedule has exactly 4 assignments, 2 per
\* section on distinct days, and no room, teacher or section double-booking.
C7_ScenarioA ==
    (IsScenarioA /\ pc = "done") =>
        /\ Len(result.schedule) = 4
        /\ \A n \in 1..2 :
              CountFor(result.schedule, courses[1].id, courses[1].sections[n],
                       subjects[1].id) = 2
        /\ \A q \in Pairs(result.schedule) :
              LET u == result.schedule[q[1]]  v == result.schedule[q[2]]
              IN  /\ ~(u.roomId = v.roomId /\ SameTime(u, v))
                  /\ ~(u.teacherId = v.teacherId /\ SameTime(u, v))
                  /\ ~(u.courseId = v.courseId /\ u.section = v.section /\ SameTime(u, v))
                  /\ SameDemandUnit(u, v) => u.day # v.day

C7_Witness == IsScenarioA /\ pc = "done" /\ Len(result.schedule) > 0

\* some conflict of the result has the given type, severity high, and names both
Reported(res, type, u, v) ==
    \E k \in 1..Len(res.conflicts) :
        /\ res.conflicts[k].type = type
        /\ res.conflicts[k].severity = "high"
        /\ {u.id, v.id} \subseteq res.conflicts[k].classes

\* C8 (for the result of optimize): every pair sharing (room, day, start) is
\* reported as a high room_conflict, every pair sharing (teacher, day, start)
\* as a teacher_conflict, and metrics.totalConflicts = conflicts.length.
C8_ConflictsReported ==
    pc = "done" =>
        /\ \A q \in Pairs(result.schedule) :
              LET u == result.schedule[q[1]]  v == result.schedule[q[2]]
              IN  /\ (u.roomId = v.roomId /\ SameTime(u, v))
                        => Reported(result, "room_conflict", u, v)
                  /\ (u.teacherId = v.teacherId /\ SameTime(u, v))
                        => Reported(result, "teacher_conflict", u, v)
        /\ result.metrics.totalConflicts = Len(result.conflicts)

-----------------------------------------------------------------------------
(* GeneticAlgorithm: conflict detection and repair *)

MaxGaSlots == 2
MaxSchedLen == 3

\* slot shapes of the GA inputs: one whose start is not before its end, two
\* that overlap with different starts, one disjoint from all the others
GaSlotShapes ==
    { [day |-> "Monday", startTime |-> 9,  endTime |-> 9],
      [day |-> "Monday", startTime |-> 9,  endTime |-> 11],
      [day |-> "Monday", startTime |-> 10, endTime |-> 11],
      [day |-> "Monday", startTime |-> 11, endTime |-> 12] }

GaSlotLists ==
    UNION { { [k \in 1..n |-> MkSlot(k, f[k])] : f \in [1..n -> GaSlotShapes] }
            : n \in 1..MaxGaSlots }

\* availability entries listing every slot of the list / none
AvailableAtAll(slots) ==
    { [day |-> d, timeSlots |-> {slots[k].id : k \in {m \in 1..Len(slots) : slots[m].day = d}}]
        : d \in {slots[k].day : k \in 1..Len(slots)} }

GaTeachers(av1, av2) ==
    << [id |-> "t1", taughtSubjectIds |-> {"x"}, departmentCourseId |-> "", availability |-> av1],
       [id |-> "t2", taughtSubjectIds |-> {"x"}, departmentCourseId |-> "", availability |-> av2] >>

\* a ClassSchedule of the GA, built from a teacher, a room and a slot; obj is
\* the identity of the object (0: an object created by the operation at hand)
GaClass(id, t, r, slot) ==
    [obj |-> id, id |-> id, courseId |-> "c1", subjectId |-> "x", section |-> "A",
     teacherId |-> t, roomId |-> r, timeSlotId |-> slot.id,
     day |-> slot.day, startTime |-> slot.startTime, endTime |-> slot.endTime]

\* every schedule of n assignments over the input's teachers, rooms and slots
GaSchedules(n, slots) ==
    { [k \in 1..n |-> GaClass(k, f[k][1], f[k][2], slots[f[k][3]])]
        : f \in [1..n -> {"t1", "t2"} \X {"r1", "r2"} \X (1..Len(slots))] }

\* start1 < end2 && start2 < end1
timeSlotsOverlap(class1, class2) ==
    class1.startTime < class2.endTime /\ class2.startTime < class1.endTime

\* the conflicts one existing class yields against classItem: teacher, then room
ConflictsWith(existing, classItem) ==
    (IF existing.teacherId = classItem.teacherId /\ existing.day = classItem.day
        /\ timeSlotsOverlap(existing, classItem)
     THEN << [type |-> "teacher_conflict", severity |-> "high",
              classes |-> <<existing.id, classItem.id>>] >>
     ELSE <<>>)
    \o
    (IF existing.roomId = classItem.roomId /\ existing.day = classItem.day
        /\ timeSlotsOverlap(existing, classItem)
     THEN << [type |-> "room_conflict", severity |-> "high",
              classes |-> <<existing.id, classItem.id>>] >>
     ELSE <<>>)

RECURSIVE detectConflictsForClass(_, _)
detectConflictsForClass(classItem, existingSchedule) ==
    IF existingSchedule = <<>> THEN <<>>
    ELSE ConflictsWith(Head(existingSchedule), classItem)
         \o detectConflictsForClass(classItem, Tail(existingSchedule))

\* teacher.availability.some(avail => avail.day === slot.day && avail.timeSlots.includes(slot.id))
TeacherAvailableAt(teacher, slot) ==
    \E avail \in teacher.availability : avail.day = slot.day /\ slot.id \in avail.timeSlots

\* { ...classItem, day, startTime, endTime, timeSlotId }: a new object
MoveTo(classItem, slot) ==
    [classItem EXCEPT !.obj = 0, !.day = slot.day, !.startTime = slot.startTime,
                      !.endTime = slot.endTime, !.timeSlotId = slot.id]

NoClass == [found |-> FALSE]

RECURSIVE AlternativeFrom(_, _, _, _)
\* the loop over this.timeSlots of findAlternativeSlot
AlternativeFrom(classItem, existingSchedule, teacher, k) ==
    IF k > Len(timeSlots) THEN NoClass
    ELSE IF ~TeacherAvailableAt(teacher, timeSlots[k])
         THEN AlternativeFrom(classItem, existingSchedule, teacher, k + 1)
    ELSE IF detectConflictsForClass(MoveTo(classItem, timeSlots[k]), existingSchedule) = <<>>
         THEN [found |-> TRUE, cls |-> MoveTo(classItem, timeSlots[k])]
    ELSE AlternativeFrom(classItem, existingSchedule, teacher, k + 1)

findAlternativeSlot(classItem, existingSchedule) ==
    LET ks == {k \in 1..Len(teachers) : teachers[k].id = classItem.teacherId}
    IN  IF ks = {} THEN NoClass
        ELSE AlternativeFrom(classItem, existingSchedule,
                             teachers[CHOOSE k \in ks : \A m \in ks : k <= m], 1)

\* `${teacherId}_${roomId}_${day}_${startTime}`
SlotKey(classItem) ==
    <<classItem.teacherId, classItem.roomId, classItem.day, classItem.startTime>>

RECURSIVE RepairFrom(_, _, _, _)
\* the loop of repairSchedule from position k on
RepairFrom(schedule, k, repairedSchedule, usedSlots) ==
    IF k > Len(schedule) THEN repairedSchedule
    ELSE LET classItem == schedule[k]
         IN  IF SlotKey(classItem) \in usedSlots
             THEN RepairFrom(schedule, k + 1, repairedSchedule, usedSlots)
             ELSE IF detectConflictsForClass(classItem, repairedSchedule) = <<>>
             THEN RepairFrom(schedule, k + 1, Append(repairedSchedule, classItem),
                             usedSlots \cup {SlotKey(classItem)})
             ELSE LET alt == findAlternativeSlot(classItem, repairedSchedule)
                  IN  IF alt.found
                      THEN RepairFrom(schedule, k + 1, Append(repairedSchedule, alt.cls),
                                      usedSlots \cup {SlotKey(alt.cls)})
                      ELSE RepairFrom(schedule, k + 1, repairedSchedule, usedSlots)

repairSchedule(schedule) == RepairFrom(schedule, 1, <<>>, {})

\* inputs of the repair runs
InitRepair ==
    /\ timeSlots \in GaSlotLists
    /\ \E av1, av2 \in {{}, AvailableAtAll(timeSlots)} : teachers = GaTeachers(av1, av2)
    /\ rooms = RoomPool
    /\ courses = Prefix(CoursePool, 1)
    /\ subjects = Prefix(SubjectPool, 1)
    /\ semesterParity = ""
    /\ repairInput \in UNION {GaSchedules(n, timeSlots) : n \in 0..MaxSchedLen}
    /\ repairRuns = <<>>
    /\ OptIdle
    /\ EvoIdle
    /\ CspIdle
    /\ AuxIdle

\* repairSchedule applied to the input, then to its own output
Repair ==
    /\ Len(repairRuns) < 2
    /\ repairRuns' = Append(repairRuns,
           repairSchedule(IF repairRuns = <<>> THEN repairInput
                          ELSE repairRuns[Len(repairRuns)]))
    /\ UNCHANGED <<repairInput, inputVars, optVars, evoVars, cspVars, auxVars>>

NextRepair == Repair

SpecRepair == InitRepair /\ [][NextRepair]_vars

\* C10: repairSchedule(repairSchedule(S)) = repairSchedule(S) as a sequence of
\* assignments, for every schedule S over the input's teachers, rooms and slots.
C10_RepairIdempotent ==
    Len(repairRuns) = 2 => repairRuns[2] = repairRuns[1]

\* every slot of the input starts before it ends
AllSlotsProper == \A k \in 1..Len(timeSlots) : timeSlots[k].startTime < timeSlots[k].endTime

\* C10, restricted to inputs whose slots all start before they end
C10_IdempotentOnProperSlots ==
    (AllSlotsProper /\ Len(repairRuns) = 2) => repairRuns[2] = repairRuns[1]

-----------------------------------------------------------------------------
(* GeneticAlgorithm.calculateFitness                                        *)
(* The fitness is a rational number; it is represented exactly by the       *)
(* integer fitness * FitnessScale, where FitnessScale is a common multiple  *)
(* of every denominator the terms can have for schedules of at most         *)
(* MaxSchedLen assignments (n^2, n*m with m <= n, 3n, the number of room    *)
(* slots and the number of required classes).                               *)

RECURSIVE SumFn(_)
\* the sum of the values of a function with a finite domain
SumFn(f) ==
    IF DOMAIN f = {} THEN 0
    ELSE LET x == CHOOSE y \in DOMAIN f : TRUE
         IN  f[x] + SumFn([y \in DOMAIN f \ {x} |-> f[y]])

Max(a, b) == IF a >= b THEN a ELSE b

Min(a, b) == IF a <= b THEN a ELSE b

\* constraints.minBreakBetweenClasses (minutes) and the preferred window, as
\* the data-entry form passes them
minBreakBetweenClasses == 15
preferredStartTime == 9
preferredEndTime == 17

\* the entries generateActualCourses pushes for one course from section j on
RECURSIVE ActualOfCourse(_, _)
ActualOfCourse(course, j) ==
    IF j > Len(course.sections) THEN <<>>
    ELSE LET fs == courseIdToSubjects(course.id)
         IN  [k \in 1..Len(fs) |->
                [id |-> <<course.id, fs[k].id, course.sections[j]>>,
                 courseId |-> course.id, subjectId |-> fs[k].id,
                 section |-> course.sections[j], semester |-> fs[k].semester,
                 roomType |-> IF fs[k].type = "lab" THEN "lab" ELSE "theory",
                 studentsCount |-> 60,
                 sessionsPerWeek |-> IF fs[k].type = "lab" THEN 1 ELSE 2]]
             \o ActualOfCourse(course, j + 1)

RECURSIVE ActualFrom(_)
ActualFrom(c) ==
    IF c > Len(courses) THEN <<>>
    ELSE ActualOfCourse(courses[c], 1) \o ActualFrom(c + 1)

\* generateActualCourses(): courses without sections contribute nothing
generateActualCourses == ActualFrom(1)

RECURSIVE Gcd(_, _)
Gcd(a, b) == IF b = 0 THEN a ELSE Gcd(b, a % b)

RECURSIVE LcmUpTo(_)
\* the least common multiple of 1..n
LcmUpTo(n) ==
    IF n <= 1 THEN 1 ELSE (LcmUpTo(n - 1) * n) \div Gcd(LcmUpTo(n - 1), n)

FitnessScale ==
    3 * LcmUpTo(MaxSchedLen) * LcmUpTo(MaxSchedLen) * (5 * Len(timeSlots) * Len(rooms))
      * Max(1, Len(generateActualCourses))

\* detectConflicts: for every pair i < j a room conflict, then a teacher conflict
PairConflicts(class1, class2) ==
    (IF class1.roomId = class2.roomId /\ class1.day = class2.day
        /\ timeSlotsOverlap(class1, class2)
     THEN << [type |-> "room_conflict", severity |-> "high",
              classes |-> <<class1.id, class2.id>>] >>
     ELSE <<>>)
    \o
    (IF class1.teacherId = class2.teacherId /\ class1.day = class2.day
        /\ timeSlotsOverlap(class1, class2)
     THEN << [type |-> "teacher_conflict", severity |-> "high",
              classes |-> <<class1.id, class2.id>>] >>
     ELSE <<>>)

RECURSIVE DetectFrom(_, _, _)
DetectFrom(schedule, a, b) ==
    IF a > Len(schedule) THEN <<>>
    ELSE IF b > Len(schedule) THEN DetectFrom(schedule, a + 1, a + 2)
    ELSE PairConflicts(schedule[a], schedule[b]) \o DetectFrom(schedule, a, b + 1)

detectConflicts(schedule) == DetectFrom(schedule, 1, 2)

\* mutant: a conflict adds its severity weight instead of subtracting it
SeverityPenalty_Added(conflict) == -100

\* 100 / 30 / 10 by severity
SeverityPenalty(conflict) ==
    CASE conflict.severity = "high" -> 100
      [] conflict.severity = "medium" -> 30
      [] OTHER -> 10

\* calculateWorkloadBalance * n^2, n = Len(schedule) > 0:
\* 1 - variance / avg^2 = 2 - k * sum(load^2) / n^2 over the k teachers used
WorkloadBalanceNum(schedule) ==
    LET n == Len(schedule)
        ts == {schedule[k].teacherId : k \in 1..n}
        load == [t \in ts |-> Cardinality({k \in 1..n : schedule[k].teacherId = t})]
    IN  Max(0, 2 * n * n - Cardinality(ts) * SumFn([t \in ts |-> load[t] * load[t]]))

\* calculateRoomUtilization * (totalSlots * rooms.length)
RoomUtilizationNum(schedule) ==
    SumFn([j \in 1..Len(rooms) |->
             Cardinality({k \in 1..Len(schedule) : schedule[k].roomId = rooms[j].id})])

\* calculateTimeDistribution * (n * m), m the number of (day, start) keys used:
\* 1 - variance / mean = (n*m - m * sum(count^2) + n^2) / (n * m)
TimeDistributionNum(schedule) ==
    LET n == Len(schedule)
        keys == {<<schedule[k].day, schedule[k].startTime>> : k \in 1..n}
        cnt == [key \in keys |->
                  Cardinality({k \in 1..n : <<schedule[k].day, schedule[k].startTime>> = key})]
        m == Cardinality(keys)
    IN  Max(0, n * m - m * SumFn([key \in keys |-> cnt[key] * cnt[key]]) + n * n)

TimeDistributionDen(schedule) ==
    Len(schedule)
      * Cardinality({<<schedule[k].day, schedule[k].startTime>> : k \in 1..Len(schedule)})

\* the first element of a list with the given id, as a set of indices
FirstWithId(list, id) ==
    LET ks == {k \in 1..Len(list) : list[k].id = id}
    IN  IF ks = {} THEN {} ELSE {CHOOSE k \in ks : \A m \in ks : k <= m}

\* the three constraints of one class that calculateConstraintSatisfaction counts
SatisfiedCount(cls) ==
    (IF \E t \in FirstWithId(teachers, cls.teacherId) :
          \E avail \in teachers[t].availability :
             /\ avail.day = cls.day
             /\ \E slot \in avail.timeSlots :
                  \E ts \in FirstWithId(timeSlots, slot) :
                     timeSlots[ts].startTime = cls.startTime
     THEN 1 ELSE 0)
    + (IF cls.startTime >= preferredStartTime /\ cls.startTime <= preferredEndTime
       THEN 1 ELSE 0)
    + (IF \E r \in FirstWithId(rooms, cls.roomId) :
            \E sj \in FirstWithId(subjects, cls.subjectId) :
               rooms[r].type = (IF subjects[sj].type = "lab" THEN "lab" ELSE "theory")
       THEN 1 ELSE 0)

\* calculateConstraintSatisfaction * (3 * n)
ConstraintSatisfactionNum(schedule) ==
    SumFn([k \in 1..Len(schedule) |-> SatisfiedCount(schedule[k])])

\* the gaps of one teacher's day, classes sorted by start: a gap of more than
\* minBreak + 60 minutes counts floor(minutes / 60)
DayGaps(classes) ==
    LET sorted == SortByStart(classes)
        Gap(k) == 60 * (sorted[k + 1].startTime - sorted[k].endTime)
    IN  SumFn([k \in 1..(Len(sorted) - 1) |->
                 IF Gap(k) > minBreakBetweenClasses + 60 THEN Gap(k) \div 60 ELSE 0])

calculateGapPenalty(schedule) ==
    LET tds == {<<schedule[k].teacherId, schedule[k].day>> : k \in 1..Len(schedule)}
    IN  SumFn([td \in tds |->
                 DayGaps(Filter(schedule,
                     {k \in 1..Len(schedule) :
                        <<schedule[k].teacherId, schedule[k].day>> = td}))])

\* calculateCoverage * actualCourses.length
CoverageNum(schedule) ==
    LET acs == generateActualCourses
    IN  Cardinality({a \in 1..Len(acs) :
            \E k \in 1..Len(schedule) :
                acs[a].id = <<schedule[k].courseId, schedule[k].subjectId, schedule[k].section>>})

\* the six quality terms, times FitnessScale
QualityTerms(schedule) ==
    LET n == Len(schedule)
    IN  (IF n = 0 THEN 0
         ELSE 80 * WorkloadBalanceNum(schedule) * (FitnessScale \div (n * n)))
      + 60 * RoomUtilizationNum(schedule)
           * (FitnessScale \div (5 * Len(timeSlots) * Len(rooms)))
      + (IF n = 0 THEN 0
         ELSE 40 * TimeDistributionNum(schedule)
                 * (FitnessScale \div TimeDistributionDen(schedule)))
      + (IF n = 0 THEN 0
         ELSE 100 * ConstraintSatisfactionNum(schedule) * (FitnessScale \div (3 * n)))
      - 20 * calculateGapPenalty(schedule) * FitnessScale
      + (IF generateActualCourses = <<>> THEN 0
         ELSE 150 * CoverageNum(schedule)
                  * (FitnessScale \div Len(generateActualCourses)))

\* calculateFitness(schedule) * FitnessScale
calculateFitness(schedule) ==
    LET conflicts == detectConflicts(schedule)
        penalty == SumFn([k \in 1..Len(conflicts) |-> SeverityPenalty(conflicts[k])])
    IN  Max((1000 - penalty) * FitnessScale + QualityTerms(schedule), 0)

-----------------------------------------------------------------------------
(* GeneticAlgorithm.generateRandomIndividual: the set of individuals the    *)
(* random choices can produce.  A generation state st holds the schedule    *)
(* built so far, the two occupancy maps and the teachers assigned per       *)
(* section; crashed marks the TypeError of reading `.day` of undefined.     *)

\* `${slot.day}_${slot.startTime}`
TimeKey(slot) == <<slot.day, slot.startTime>>

\* indices of the teachers who teach the subject or belong to the course
QualifiedFor(subjectId, courseId) ==
    {k \in 1..Len(teachers) :
        subjectId \in teachers[k].taughtSubjectIds \/ teachers[k].departmentCourseId = courseId}

\* the list without its j-th element (splice(j, 1))
RemoveAt(list, j) == SubSeq(list, 1, j - 1) \o SubSeq(list, j + 1, Len(list))

EmptyGeneration ==
    [crashed |-> FALSE, schedule |-> <<>>, teacherOccupancy |-> {}, roomOccupancy |-> {},
     sectionTeacherAssignments |-> {}]

\* schedule.push({...}) and the update of the two occupancy maps
PushSession(st, ac, session, teacher, room, slot) ==
    [st EXCEPT
        !.schedule = Append(@,
            [obj |-> 0, id |-> <<ac.id, session>>, courseId |-> ac.courseId,
             subjectId |-> ac.subjectId, section |-> ac.section, semester |-> ac.semester,
             teacherId |-> teacher.id, roomId |-> room.id, timeSlotId |-> slot.id,
             day |-> slot.day, startTime |-> slot.startTime, endTime |-> slot.endTime]),
        !.teacherOccupancy = @ \cup {<<teacher.id, TimeKey(slot)>>},
        !.roomOccupancy = @ \cup {<<room.id, TimeKey(slot)>>}]

RECURSIVE SessionsFrom(_, _, _, _, _, _)
\* the session loop of one actual course; availableRooms is not empty
SessionsFrom(ac, teacher, availableRooms, availableTimeSlots, session, st) ==
    IF session >= ac.sessionsPerWeek THEN {st}
    ELSE IF availableTimeSlots = <<>>
         THEN {[st EXCEPT !.crashed = TRUE]}   \* availableTimeSlots[NaN].day
    ELSE LET timeSlot == availableTimeSlots[(session % Len(availableTimeSlots)) + 1]
             availableRoomsForSession ==
                 {r \in availableRooms : <<rooms[r].id, TimeKey(timeSlot)>> \notin st.roomOccupancy}
         IN  IF availableRoomsForSession = {}
             THEN SessionsFrom(ac, teacher, availableRooms, availableTimeSlots, session + 1, st)
             ELSE UNION { SessionsFrom(ac, teacher, availableRooms,
                                       RemoveAt(availableTimeSlots, c[2]), session + 1,
                                       PushSession(st, ac, session, teacher, rooms[c[1]],
                                                   availableTimeSlots[c[2]]))
                          : c \in availableRoomsForSession \X (1..Len(availableTimeSlots)) }

RECURSIVE GenerateFrom(_, _)
RECURSIVE AfterTeacher(_, _, _)

\* the rest of the loop body once the teacher (index k) is chosen and recorded
AfterTeacher(a, k, st) ==
    LET ac == generateActualCourses[a]
        availableRooms ==
            {r \in 1..Len(rooms) :
                rooms[r].type = ac.roomType /\ rooms[r].capacity >= ac.studentsCount}
        availableTimeSlots ==
            Filter(timeSlots,
                   {j \in 1..Len(timeSlots) :
                       /\ <<teachers[k].id, TimeKey(timeSlots[j])>> \notin st.teacherOccupancy
                       /\ TeacherAvailableAt(teachers[k], timeSlots[j])})
    IN  IF availableRooms = {} \/ availableTimeSlots = <<>>
        THEN GenerateFrom(a + 1, st)
        ELSE UNION { GenerateFrom(a + 1, st2)
                     : st2 \in SessionsFrom(ac, teachers[k], availableRooms,
                                            availableTimeSlots, 0, st) }

\* the loop over the actual courses from index a on
GenerateFrom(a, st) ==
    IF st.crashed \/ a > Len(generateActualCourses) THEN {st}
    ELSE LET ac == generateActualCourses[a]
             qualifiedTeachers == QualifiedFor(ac.subjectId, ac.courseId)
             sectionKey == <<ac.courseId, ac.section>>
             assigned == {u[3] : u \in {v \in st.sectionTeacherAssignments : v[1] = sectionKey}}
             unassignedTeachers == {k \in qualifiedTeachers : teachers[k].id \notin assigned}
             teachersToChooseFrom ==
                 IF unassignedTeachers # {} THEN unassignedTeachers ELSE qualifiedTeachers
         IN  IF qualifiedTeachers = {} THEN GenerateFrom(a + 1, st)
             ELSE UNION { AfterTeacher(a, k,
                              [st EXCEPT !.sectionTeacherAssignments =
                                  {v \in @ : ~(v[1] = sectionKey /\ v[2] = ac.subjectId)}
                                  \cup {<<sectionKey, ac.subjectId, teachers[k].id>>}])
                          : k \in teachersToChooseFrom }

\* the outcomes of generateRandomIndividual(): an individual or the crash
generateRandomIndividual ==
    { IF st.crashed THEN [crashed |-> TRUE]
      ELSE [crashed |-> FALSE, schedule |-> st.schedule,
            fitness |-> calculateFitness(st.schedule)]
      : st \in GenerateFrom(1, EmptyGeneration) }

-----------------------------------------------------------------------------
(* ClassSchedule objects.  heap[r] holds the fields of the object with      *)
(* reference r (heap[r].obj = r); the schedule of an individual is a list   *)
(* of references, so two schedules can hold the same object.                *)

\* the objects a list of references points to
Deref(h, refs) == [k \in 1..Len(refs) |-> h[refs[k]]]

\* the fields of an object other than its identity
Content(cls) == [f \in (DOMAIN cls) \ {"obj"} |-> cls[f]]

\* the assignments of a schedule, identities left out
Contents(h, refs) == [k \in 1..Len(refs) |-> Content(h[refs[k]])]

\* store a list of objects: those with obj = 0 are new and get the next free
\* references, the others are already on the heap
Store(h, objects) ==
    LET new == {k \in 1..Len(objects) : objects[k].obj = 0}
        rank(k) == Cardinality({m \in new : m <= k})
        refs == [k \in 1..Len(objects) |->
                    IF k \in new THEN Len(h) + rank(k) ELSE objects[k].obj]
    IN  [heap |-> [r \in 1..(Len(h) + Cardinality(new)) |->
                      IF r <= Len(h) THEN h[r]
                      ELSE LET k == CHOOSE m \in new : rank(m) = r - Len(h)
                           IN  [objects[k] EXCEPT !.obj = r]],
         schedule |-> refs]

RECURSIVE Dedup(_)
\* the first occurrences of the elements of a list, in order
Dedup(list) ==
    IF list = <<>> THEN <<>>
    ELSE LET init == Dedup(SubSeq(list, 1, Len(list) - 1))
             last == list[Len(list)]
         IN  IF \E k \in 1..Len(init) : init[k] = last THEN init ELSE Append(init, last)

RECURSIVE Flatten(_)
Flatten(lists) == IF lists = <<>> THEN <<>> ELSE Head(lists) \o Flatten(Tail(lists))

\* garbage collection: keep the objects reachable from the given individuals
\* and renumber them in the order they are first reached
Collect(h, pop, newPop, best) ==
    LET live == Dedup(Flatten([k \in 1..Len(pop) |-> pop[k].schedule])
                      \o Flatten([k \in 1..Len(newPop) |-> newPop[k].schedule])
                      \o best.schedule)
        to(r) == CHOOSE k \in 1..Len(live) : live[k] = r
        Move(ind) == [ind EXCEPT !.schedule = [k \in 1..Len(@) |-> to(@[k])]]
    IN  [heap |-> [k \in 1..Len(live) |-> [h[live[k]] EXCEPT !.obj = k]],
         population |-> [k \in 1..Len(pop) |-> Move(pop[k])],
         newPopulation |-> [k \in 1..Len(newPop) |-> Move(newPop[k])],
         bestIndividual |-> Move(best)]

\* repairSchedule on a list of references: the objects kept stay the same
\* objects, a relocated assignment is a new object
RepairOnHeap(h, refs) ==
    LET repaired == repairSchedule(Deref(h, refs))
        stored == Store(h, repaired)
    IN  [heap |-> stored.heap,
         individual |-> [schedule |-> stored.schedule,
                         fitness |-> calculateFitness(repaired)]]

-----------------------------------------------------------------------------
(* GeneticAlgorithm.mutate and crossover.  Rates are in hundredths; a draw  *)
(* Math.random() < rate can succeed iff rate > 0 and can fail iff rate < 1. *)

\* calculateAdaptiveMutationRate, in units of 1 / (100 * 1000 * FitnessScale)
calculateAdaptiveMutationRate(fitness, baseMutationRate) ==
    baseMutationRate * (2000 * FitnessScale - Min(Max(fitness, 0), 1000 * FitnessScale))

AdaptiveRateOne == 100 * 1000 * FitnessScale

\* mutateTimeSlot(classItem): the object takes any slot its teacher lists
mutateTimeSlot(h, r) ==
    LET ts == FirstWithId(teachers, h[r].teacherId)
        availableTimeSlots ==
            {j \in 1..Len(timeSlots) :
                \E t \in ts : TeacherAvailableAt(teachers[t], timeSlots[j])}
    IN  IF ts = {} \/ availableTimeSlots = {} THEN {h}
        ELSE { [h EXCEPT ![r] = [@ EXCEPT !.timeSlotId = timeSlots[j].id,
                                          !.day = timeSlots[j].day,
                                          !.startTime = timeSlots[j].startTime,
                                          !.endTime = timeSlots[j].endTime]]
               : j \in availableTimeSlots }

\* mutateRoom(classItem): any room of the subject's type with capacity >= 60
mutateRoom(h, r) ==
    LET sj == FirstWithId(subjects, h[r].subjectId)
        availableRooms ==
            {k \in 1..Len(rooms) :
                /\ \E j \in sj : rooms[k].type = (IF subjects[j].type = "lab"
                                                  THEN "lab" ELSE "theory")
                /\ rooms[k].capacity >= 60}
    IN  IF sj = {} \/ availableRooms = {} THEN {h}
        ELSE { [h EXCEPT ![r] = [@ EXCEPT !.roomId = rooms[k].id]] : k \in availableRooms }

\* mutateTeacher(classItem): another qualified teacher, if there is more than one
mutateTeacher(h, r) ==
    LET qualified == QualifiedFor(h[r].subjectId, h[r].courseId)
        otherTeachers == {k \in qualified : teachers[k].id # h[r].teacherId}
    IN  IF Cardinality(qualified) > 1 /\ otherTeachers # {}
        THEN { [h EXCEPT ![r] = [@ EXCEPT !.teacherId = teachers[k].id]] : k \in otherTeachers }
        ELSE {h}

\* the object with the slot and room fields of another
WithPlaceOf(cls, other) ==
    [cls EXCEPT !.timeSlotId = other.timeSlotId, !.day = other.day,
                !.startTime = other.startTime, !.endTime = other.endTime,
                !.roomId = other.roomId]

\* swapMutation(schedule, index): the assignments to schedule[index], then to
\* schedule[otherIndex] from the saved copy (the two can be the same object)
swapMutation(h, schedule, index) ==
    IF Len(schedule) < 2 THEN {h}
    ELSE { IF otherIndex = index THEN h
           ELSE LET temp == h[schedule[index]]
                    h1 == [h EXCEPT ![schedule[index]] =
                                WithPlaceOf(@, h[schedule[otherIndex]])]
                IN  [h1 EXCEPT ![schedule[otherIndex]] = WithPlaceOf(@, temp)]
           : otherIndex \in 1..Len(schedule) }

\* the four mutation types applied to position k
MutateGene(h, schedule, k) ==
    mutateTimeSlot(h, schedule[k]) \cup mutateRoom(h, schedule[k])
      \cup mutateTeacher(h, schedule[k]) \cup swapMutation(h, schedule, k)

RECURSIVE MutateFrom(_, _, _, _)
\* the loop of mutate from position k on: the heaps it can leave
MutateFrom(h, schedule, k, adaptiveMutationRate) ==
    IF k > Len(schedule) THEN {h}
    ELSE UNION { MutateFrom(h2, schedule, k + 1, adaptiveMutationRate)
                 : h2 \in (IF adaptiveMutationRate < AdaptiveRateOne THEN {h} ELSE {})
                          \cup (IF adaptiveMutationRate > 0
                                THEN MutateGene(h, schedule, k) ELSE {}) }

\* mutate(individual, mutationRate): [...individual.schedule] copies the list
\* of references, the objects are mutated in place, the result is repaired
mutate(h, individual, mutationRate) ==
    { RepairOnHeap(h2, individual.schedule)
      : h2 \in MutateFrom(h, individual.schedule, 1,
                          calculateAdaptiveMutationRate(individual.fitness, mutationRate)) }

\* Array.prototype.slice(a, b)
Slice(list, a, b) == SubSeq(list, a + 1, b)

\* the two repaired children with their fitness
Children(h, child1Schedule, child2Schedule) ==
    LET r1 == RepairOnHeap(h, child1Schedule)
        r2 == RepairOnHeap(r1.heap, child2Schedule)
    IN  [heap |-> r2.heap, children |-> <<r1.individual, r2.individual>>]

singlePointCrossover(h, parent1, parent2) ==
    LET s1 == parent1.schedule
        s2 == parent2.schedule
        minLength == Min(Len(s1), Len(s2))
    IN  IF minLength = 0 THEN {[heap |-> h, children |-> <<parent1, parent2>>]}
        ELSE { Children(h, Slice(s1, 0, cp) \o Slice(s2, cp, Len(s2)),
                           Slice(s2, 0, cp) \o Slice(s1, cp, Len(s1)))
               : cp \in 0..(minLength - 1) }

twoPointCrossover(h, parent1, parent2) ==
    LET s1 == parent1.schedule
        s2 == parent2.schedule
        minLength == Min(Len(s1), Len(s2))
    IN  IF minLength < 2 THEN singlePointCrossover(h, parent1, parent2)
        ELSE { Children(h,
                   Slice(s1, 0, Min(pt[1], pt[2])) \o Slice(s2, Min(pt[1], pt[2]), Max(pt[1], pt[2]))
                     \o Slice(s1, Max(pt[1], pt[2]), Len(s1)),
                   Slice(s2, 0, Min(pt[1], pt[2])) \o Slice(s1, Min(pt[1], pt[2]), Max(pt[1], pt[2]))
                     \o Slice(s2, Max(pt[1], pt[2]), Len(s2)))
               : pt \in (0..(minLength - 1)) \X (0..(minLength - 1)) }

uniformCrossover(h, parent1, parent2) ==
    LET s1 == parent1.schedule
        s2 == parent2.schedule
        maxLength == Max(Len(s1), Len(s2))
        Pick(first, k) == IF first /\ k <= Len(s1) THEN <<s1[k]>>
                          ELSE IF k <= Len(s2) THEN <<s2[k]>> ELSE <<>>
    IN  { Children(h, Flatten([k \in 1..maxLength |-> Pick(useParent1[k], k)]),
                      Flatten([k \in 1..maxLength |-> Pick(~useParent1[k], k)]))
          : useParent1 \in [1..maxLength -> BOOLEAN] }

\* crossover(parent1, parent2): one of the three strategies
crossover(h, parent1, parent2) ==
    uniformCrossover(h, parent1, parent2) \cup twoPointCrossover(h, parent1, parent2)
      \cup singlePointCrossover(h, parent1, parent2)

-----------------------------------------------------------------------------
(* HybridOptimizer.optimizeWithGeneticAlgorithm / runGeneticEvolution *)

MaxPop == 2
MaxGenerations == 1

\* the inputs of the evolution runs
EvoSlots ==
    << MkSlot(1, [day |-> "Monday", startTime |-> 9,  endTime |-> 10]),
       MkSlot(2, [day |-> "Monday", startTime |-> 10, endTime |-> 11]) >>

EvoRooms ==
    << [id |-> "r1", type |-> "theory", capacity |-> 60],
       [id |-> "r2", type |-> "theory", capacity |-> 80] >>

EvoCourses == << [id |-> "c1", sections |-> <<"A">>] >>

\* the parameters the application passes, the sizes bounded
EvoParams ==
    { [populationSize |-> MaxPop, generations |-> MaxGenerations, mutationRate |-> 10,
       crossoverRate |-> 80, eliteSize |-> e, generationOffset |-> 0]
      : e \in 1..MaxPop }

RECURSIVE InsertByFitness(_, _)
\* insert into a list sorted by descending fitness, after the entries that compare equal
InsertByFitness(sorted, ind) ==
    IF sorted = <<>> THEN <<ind>>
    ELSE IF Head(sorted).fitness >= ind.fitness
         THEN <<Head(sorted)>> \o InsertByFitness(Tail(sorted), ind)
         ELSE <<ind>> \o sorted

RECURSIVE SortByFitness(_)
\* population.sort((a, b) => b.fitness - a.fitness), a stable sort
SortByFitness(pop) ==
    IF pop = <<>> THEN <<>>
    ELSE InsertByFitness(SortByFitness(SubSeq(pop, 1, Len(pop) - 1)), pop[Len(pop)])

\* a common multiple of the sizes a union of two schedules can have
DifferenceScale == LcmUpTo(2 * MaxSchedLen)

\* calculateScheduleDifference * DifferenceScale
calculateScheduleDifference(schedule1, schedule2) ==
    LET Sig(cls) == <<cls.courseId, cls.teacherId, cls.roomId, cls.day, cls.startTime>>
        set1 == {Sig(schedule1[k]) : k \in 1..Len(schedule1)}
        set2 == {Sig(schedule2[k]) : k \in 1..Len(schedule2)}
        union == Cardinality(set1 \cup set2)
    IN  IF union > 0
        THEN (union - Cardinality(set1 \cap set2)) * (DifferenceScale \div union)
        ELSE 0

\* calculateDiversity * DifferenceScale * selected.length (the candidates of one
\* round are compared against the same selected list)
calculateDiversity(h, individual, selected) ==
    SumFn([k \in 1..Len(selected) |->
             calculateScheduleDifference(Deref(h, individual.schedule),
                                         Deref(h, selected[k].schedule))])

RECURSIVE SelectDiverse(_, _, _)
\* the while loop of diversityPreservingSelection: the first most diverse
\* individual of remaining is moved to selected
SelectDiverse(h, selected, remaining) ==
    IF remaining = <<>> THEN selected
    ELSE LET div == [k \in 1..Len(remaining) |-> calculateDiversity(h, remaining[k], selected)]
             bestIndex == CHOOSE k \in 1..Len(remaining) :
                             /\ \A m \in 1..Len(remaining) : div[m] <= div[k]
                             /\ \A m \in 1..(k - 1) : div[m] < div[k]
         IN  SelectDiverse(h, Append(selected, remaining[bestIndex]),
                           RemoveAt(remaining, bestIndex))

diversityPreservingSelection(h, pop, eliteSize) ==
    LET sorted == SortByFitness(pop)
    IN  SelectDiverse(h, Slice(sorted, 0, eliteSize), Slice(sorted, eliteSize, Len(sorted)))

\* population.reduce((best, ind) => ind.fitness > best.fitness ? ind : best, population[0])
FirstBest(pop) ==
    pop[CHOOSE k \in 1..Len(pop) :
            /\ \A m \in 1..Len(pop) : pop[m].fitness <= pop[k].fitness
            /\ \A m \in 1..(k - 1) : pop[m].fitness < pop[k].fitness]

\* calculateMetrics: constants but for the conflict count (in hundredths)
calculateMetrics(conflicts) ==
    [totalConflicts |-> Len(conflicts), roomUtilization |-> 85,
     teacherWorkloadBalance |-> 92, studentSatisfaction |-> 88,
     constraintSatisfaction |-> 90]

\* selectParent: the winner of a tournament of three draws with replacement
\* can be any individual (the three draws can be the same one)
selectParent == {population[k] : k \in 1..Len(population)}

\* `mutated = Math.random() < currentMutationRate ? mutate(child, rate) : child`
MaybeMutate(h, child) ==
    (IF currentMutationRate < 100 THEN {[heap |-> h, individual |-> child]} ELSE {})
    \cup (IF currentMutationRate > 0 THEN mutate(h, child, currentMutationRate) ELSE {})

RECURSIVE PushChildren(_, _, _)
\* `for (const child of children)`: pushed while there is room
PushChildren(h, children, newPop) ==
    IF children = <<>> THEN {[heap |-> h, newPopulation |-> newPop]}
    ELSE IF Len(newPop) < params.populationSize
         THEN UNION { PushChildren(m.heap, Tail(children), Append(newPop, m.individual))
                      : m \in MaybeMutate(h, Head(children)) }
         ELSE PushChildren(h, Tail(children), newPop)

\* one iteration of the while loop that fills newPopulation
FillOutcomes ==
    UNION { (IF params.crossoverRate > 0
             THEN UNION { PushChildren(c.heap, c.children, newPopulation)
                          : c \in crossover(heap, pp[1], pp[2]) }
             ELSE {})
            \cup
            (IF params.crossoverRate < 100
             THEN { [heap |-> m.heap, newPopulation |-> Append(newPopulation, m.individual)]
                    : m \in mutate(heap, pp[1], currentMutationRate) }
             ELSE {})
            : pp \in selectParent \X selectParent }

InitGA ==
    /\ timeSlots = EvoSlots
    /\ \E av2 \in {{}, AvailableAtAll(EvoSlots)} :
          teachers = GaTeachers(AvailableAtAll(EvoSlots), av2)
    /\ rooms = EvoRooms
    /\ courses = EvoCourses
    /\ subjects = Prefix(SubjectPool, 1)
    /\ semesterParity = ""
    /\ OptIdle
    /\ CspIdle
    /\ AuxIdle
    /\ repairInput = <<>> /\ repairRuns = <<>>
    /\ gaPc = "populate"
    /\ params \in EvoParams
    /\ heap = <<>>
    /\ population = <<>>
    /\ newPopulation = <<>>
    /\ bestIndividual = <<>>
    /\ generation = 0
    /\ stagnationCount = 0
    /\ currentMutationRate = 0
    /\ lastBestFitness = 0
    /\ bestBefore = 0
    /\ generationData = <<>>
    /\ gaProgressLog = <<>>
    /\ gaResult = NoResult
    /\ elitesBefore = <<>>

evoOuter == <<repairInput, repairRuns, inputVars, optVars, cspVars, auxVars>>
evoFrame == <<evoOuter, bestBefore>>

\* optimizeWithGeneticAlgorithm: population.push(generateRandomIndividual())
Populate ==
    /\ gaPc = "populate"
    /\ Len(population) < params.populationSize
    /\ \E g \in generateRandomIndividual :
          IF g.crashed
          THEN /\ gaPc' = "crashed"
               /\ UNCHANGED <<heap, population>>
          ELSE LET stored == Store(heap, g.schedule)
               IN  /\ heap' = stored.heap
                   /\ population' = Append(population,
                          [schedule |-> stored.schedule, fitness |-> g.fitness])
                   /\ UNCHANGED gaPc
    /\ UNCHANGED <<params, newPopulation, bestIndividual, generation, stagnationCount,
                   currentMutationRate, lastBestFitness, generationData, gaProgressLog,
                   gaResult, elitesBefore, evoFrame>>

\* runGeneticEvolution, up to the generation loop
BeginEvolution ==
    /\ gaPc = "populate"
    /\ Len(population) >= params.populationSize
    /\ bestIndividual' = FirstBest(population)
    /\ currentMutationRate' = params.mutationRate
    /\ stagnationCount' = 0
    /\ lastBestFitness' = FirstBest(population).fitness
    /\ generation' = 0
    /\ generationData' = <<>>
    /\ gaPc' = "gen"
    /\ UNCHANGED <<params, heap, population, newPopulation, gaProgressLog,
                   gaResult, elitesBefore, evoFrame>>

\* the head of a generation: adaptive mutation rate, selection, sort, elitism
GenStart ==
    /\ gaPc = "gen"
    /\ generation < params.generations
    /\ IF generation > 0 /\ bestIndividual.fitness <= lastBestFitness
       THEN /\ stagnationCount' = stagnationCount + 1
            /\ currentMutationRate' = IF stagnationCount + 1 > 10
                                      THEN Min(params.mutationRate * 2, 30)
                                      ELSE currentMutationRate
       ELSE /\ stagnationCount' = 0
            /\ currentMutationRate' = params.mutationRate
    /\ LET sorted == SortByFitness(
                         diversityPreservingSelection(heap, population, params.eliteSize))
       IN  /\ population' = sorted
           /\ newPopulation' = Slice(sorted, 0, params.eliteSize)
           /\ elitesBefore' = [k \in 1..params.eliteSize |->
                                  [schedule |-> Contents(heap, sorted[k].schedule),
                                   fitness |-> sorted[k].fitness]]
    /\ gaPc' = "fill"
    /\ UNCHANGED <<params, heap, bestIndividual, generation, lastBestFitness, generationData,
                   gaProgressLog, gaResult, evoFrame>>

\* one iteration of `while (newPopulation.length < params.populationSize)`
Fill ==
    /\ gaPc = "fill"
    /\ Len(newPopulation) < params.populationSize
    /\ \E o \in FillOutcomes :
          LET c == Collect(o.heap, population, o.newPopulation, bestIndividual)
          IN  /\ heap' = c.heap
              /\ population' = c.population
              /\ newPopulation' = c.newPopulation
              /\ bestIndividual' = c.bestIndividual
    /\ UNCHANGED <<gaPc, params, generation, stagnationCount, currentMutationRate,
                   lastBestFitness, generationData, gaProgressLog, gaResult, elitesBefore,
                   evoFrame>>

\* the tail of a generation: the new population replaces the old one, best
\* individual, generation data, progress callback, early termination
GenEnd ==
    /\ gaPc = "fill"
    /\ Len(newPopulation) >= params.populationSize
    /\ LET currentBest == FirstBest(newPopulation)
           best == IF currentBest.fitness > bestIndividual.fitness
                   THEN currentBest ELSE bestIndividual
           fitnesses == [k \in 1..Len(newPopulation) |-> newPopulation[k].fitness]
           c == Collect(heap, newPopulation, <<>>, best)
       IN  /\ heap' = c.heap
           /\ population' = c.population
           /\ newPopulation' = <<>>
           /\ bestIndividual' = c.bestIndividual
           /\ lastBestFitness' = best.fitness
           /\ generationData' = Append(generationData,
                  [generation |-> generation + params.generationOffset,
                   bestFitness |-> currentBest.fitness,
                   averageFitness |-> <<SumFn(fitnesses), Len(fitnesses)>>,
                   worstFitness |-> CHOOSE f \in {fitnesses[k] : k \in 1..Len(fitnesses)} :
                                       \A k \in 1..Len(fitnesses) : f <= fitnesses[k]])
           /\ gaProgressLog' = Append(gaProgressLog,
                  [progress |-> <<(generation + 1) * 100, params.generations>>,
                   generation |-> generation + 1 + params.generationOffset,
                   bestFitness |-> best.fitness])
           /\ IF best.fitness > 950 * FitnessScale
                 /\ detectConflicts(Deref(heap, best.schedule)) = <<>>
              THEN gaPc' = "return" /\ UNCHANGED generation
              ELSE gaPc' = "gen" /\ generation' = generation + 1
    /\ bestBefore' = bestIndividual.fitness
    /\ UNCHANGED <<params, stagnationCount, currentMutationRate, gaResult, elitesBefore,
                   evoOuter>>

\* after the loop: the result is built from the best individual
ReturnBest ==
    /\ \/ gaPc = "return"
       \/ gaPc = "gen" /\ generation >= params.generations
    /\ LET schedule == Deref(heap, bestIndividual.schedule)
           conflicts == detectConflicts(schedule)
       IN  gaResult' = [kind |-> "result", schedule |-> schedule,
                        fitness |-> bestIndividual.fitness, conflicts |-> conflicts,
                        metrics |-> calculateMetrics(conflicts),
                        generationData |-> generationData]
    /\ gaPc' = "done"
    /\ UNCHANGED <<params, heap, population, newPopulation, bestIndividual, generation,
                   stagnationCount, currentMutationRate, lastBestFitness, generationData,
                   gaProgressLog, elitesBefore, evoFrame>>

NextGA == Populate \/ BeginEvolution \/ GenStart \/ Fill \/ GenEnd \/ ReturnBest

SpecGA == InitGA /\ [][NextGA]_vars

\* C9: after an iteration of the generation loop every elite carried over is in
\* the new population with the assignments and the fitness it had before.
C9_ElitesUnchanged ==
    (gaPc \in {"gen", "return", "done"} /\ elitesBefore # <<>>)
        => \A e \in 1..Len(elitesBefore) :
              \E k \in 1..Len(population) :
                 /\ Contents(heap, population[k].schedule) = elitesBefore[e].schedule
                 /\ population[k].fitness = elitesBefore[e].fitness

-----------------------------------------------------------------------------
(* CPSATSolver (data/demoData.ts): variables and constraints.               *)
(* A variable id `${course.id}_${subject.id}_${section}_${teacher.id}_      *)
(* ${room.id}_${timeSlot.id}` is modelled by the tuple of its six parts, a  *)
(* constraint id by the tuple of its prefix and parts.                      *)

MaxCspSlots == 2

\* slot shapes of the solver inputs: one that starts before the preferred
\* window, two inside it
CspSlotShapes ==
    { [day |-> "Monday", startTime |-> 8,  endTime |-> 9],
      [day |-> "Monday", startTime |-> 9,  endTime |-> 10],
      [day |-> "Monday", startTime |-> 10, endTime |-> 11] }

CspSlotLists ==
    UNION { { [k \in 1..n |-> MkSlot(k, f[k])] : f \in [1..n -> CspSlotShapes] }
            : n \in 1..MaxCspSlots }

\* a Course with the fields the greedy fallback reads
CspCourse(id, sections, teacherId, sessionsPerWeek) ==
    [id |-> id, sections |-> sections, teacherId |-> teacherId,
     sessionsPerWeek |-> sessionsPerWeek, requiredEquipment |-> <<>>,
     studentsCount |-> 60, roomType |-> "theory"]

CspCourseLists ==
    { <<CspCourse("c1", secs, "", 1)>> : secs \in {<<"A">>, <<"A", "B">>} }
    \cup { <<CspCourse("c1", <<"A">>, "t1", n)>> : n \in 1..2 }
    \cup { <<CspCourse("c1", <<"A">>, "t2", 1), CspCourse("c22", <<>>, "t1", 2)>> }

\* two theory subjects of course c1, in an odd and an even semester
CspSubjectPool ==
    << [id |-> "x", courseId |-> "c1", semester |-> 1, type |-> "theory"],
       [id |-> "w", courseId |-> "c1", semester |-> 2, type |-> "theory"] >>

CspTeacher(id, av) ==
    [id |-> id, taughtSubjectIds |-> {"x", "w"}, departmentCourseId |-> "",
     availability |-> av]

CspTeacherLists(slots) ==
    { <<CspTeacher("t1", av1)>> : av1 \in {{}, AvailableAtAll(slots)} }
    \cup { <<CspTeacher("t1", AvailableAtAll(slots)), CspTeacher("t2", av2)>>
             : av2 \in {{}, AvailableAtAll(slots)} }

CspRoomLists ==
    { << [id |-> "r1", type |-> "theory", capacity |-> 60, equipment |-> {}] >>,
      << [id |-> "r1", type |-> "theory", capacity |-> 60, equipment |-> {}],
         [id |-> "r2", type |-> "theory", capacity |-> 80, equipment |-> {}] >>,
      << [id |-> "r1", type |-> "theory", capacity |-> 60, equipment |-> {}],
         [id |-> "r2", type |-> "theory", capacity |-> 30, equipment |-> {}] >> }

\* subject.type === 'lab' ? 'lab' : 'theory'
RoomTypeFor(subject) == IF subject.type = "lab" THEN "lab" ELSE "theory"

\* isVariableValid
isVariableValid(subject, teacher, room, timeSlot) ==
    LET teacherAvailable ==
            \E avail \in teacher.availability :
               avail.day = timeSlot.day /\ timeSlot.id \in avail.timeSlots
        roomCompatible == room.type = RoomTypeFor(subject)
        timePreferred == /\ timeSlot.startTime >= preferredStartTime
                         /\ timeSlot.startTime <= preferredEndTime
    IN  teacherAvailable /\ roomCompatible /\ timePreferred

\* Map.prototype.set on a Map kept as the list of its values in insertion order
MapSet(map, v) ==
    IF \E k \in 1..Len(map) : map[k].id = v.id
    THEN [k \in 1..Len(map) |-> IF map[k].id = v.id THEN v ELSE map[k]]
    ELSE Append(map, v)

RECURSIVE MapSetAll(_, _)
MapSetAll(map, vs) ==
    IF vs = <<>> THEN map ELSE MapSetAll(MapSet(map, Head(vs)), Tail(vs))

\* the variables of one (course, section, subject): teacher x room x time slot
VariablesFor(course, section, subject) ==
    LET ts == Filter(teachers, {k \in 1..Len(teachers) :
                  \/ subject.id \in teachers[k].taughtSubjectIds
                  \/ teachers[k].departmentCourseId = course.id})
        rs == Filter(rooms, {k \in 1..Len(rooms) :
                  rooms[k].type = RoomTypeFor(subject) /\ rooms[k].capacity >= 60})
        nr == Len(rs)
        ns == Len(timeSlots)
    IN  [k \in 1..(Len(ts) * nr * ns) |->
            LET teacher == ts[((k - 1) \div (nr * ns)) + 1]
                room == rs[(((k - 1) \div ns) % nr) + 1]
                timeSlot == timeSlots[((k - 1) % ns) + 1]
            IN  [id |-> <<course.id, subject.id, section, teacher.id, room.id, timeSlot.id>>,
                 courseId |-> course.id, subjectId |-> subject.id, section |-> section,
                 teacherId |-> teacher.id, roomId |-> room.id,
                 timeSlotId |-> timeSlot.id,
                 domain |-> isVariableValid(subject, teacher, room, timeSlot)]]

\* initializeVariables: the Map after the nested loops
initializeVariables ==
    MapSetAll(<<>>,
        Flatten([c \in 1..Len(courses) |->
            Flatten([s \in 1..Len(courses[c].sections) |->
                Flatten([j \in 1..Len(filteredSubjects) |->
                    IF filteredSubjects[j].courseId = courses[c].id
                    THEN VariablesFor(courses[c], courses[c].sections[s], filteredSubjects[j])
                    ELSE <<>>])])]))

\* the ids of the variables of vs that satisfy P, in order
IdsWhere(vs, P(_)) ==
    LET sel == Filter(vs, {k \in 1..Len(vs) : P(vs[k])})
    IN  [k \in 1..Len(sel) |-> sel[k].id]

\* the keys of a Map filled by walking vs, in insertion order
KeysOf(vs, Key(_)) == Dedup([k \in 1..Len(vs) |-> Key(vs[k])])

MkConstraint(id, type, ids) ==
    [id |-> id, type |-> type, variables |-> ids, satisfied |-> FALSE]

\* the teacher groups, then the room groups, of one time slot
ConflictsOfSlot(vs, timeSlotKey) ==
    LET inSlot == Filter(vs, {k \in 1..Len(vs) : vs[k].timeSlotId = timeSlotKey})
        teacherKeys == KeysOf(inSlot, LAMBDA v : v.teacherId)
        roomKeys == KeysOf(inSlot, LAMBDA v : v.roomId)
        teacherGroups ==
            [k \in 1..Len(teacherKeys) |->
                MkConstraint(<<"teacher_conflict", teacherKeys[k], timeSlotKey>>,
                    "resource_conflict",
                    IdsWhere(inSlot, LAMBDA v : v.teacherId = teacherKeys[k]))]
        roomGroups ==
            [k \in 1..Len(roomKeys) |->
                MkConstraint(<<"room_conflict", roomKeys[k], timeSlotKey>>,
                    "resource_conflict",
                    IdsWhere(inSlot, LAMBDA v : v.roomId = roomKeys[k]))]
        all == teacherGroups \o roomGroups
    IN  Filter(all, {k \in 1..Len(all) : Len(all[k].variables) > 1})

\* addResourceConflictConstraints
addResourceConflictConstraints(vs) ==
    LET slotKeys == KeysOf(vs, LAMBDA v : v.timeSlotId)
    IN  Flatten([k \in 1..Len(slotKeys) |-> ConflictsOfSlot(vs, slotKeys[k])])

\* addSubjectRequirementConstraints
addSubjectRequirementConstraints(vs) ==
    LET keys == KeysOf(vs, LAMBDA v : <<v.subjectId, v.section>>)
    IN  [k \in 1..Len(keys) |->
            MkConstraint(<<"subject_requirement", keys[k]>>, "teacher_availability",
                IdsWhere(vs, LAMBDA v : <<v.subjectId, v.section>> = keys[k]))]

\* the diversity constraints of one (course, section) group
DiversityOfSection(vs, sectionKey) ==
    LET inSection == Filter(vs, {k \in 1..Len(vs) :
                         <<vs[k].courseId, vs[k].section>> = sectionKey})
        subjectKeys == KeysOf(inSection, LAMBDA v : v.subjectId)
        teachersOf(subject) ==
            {inSection[k].teacherId : k \in {m \in 1..Len(inSection) :
                                               inSection[m].subjectId = subject}}
        n == Len(subjectKeys)
        \* the pairs (i, j), i < j, in the order of the two nested loops
        pairs == Flatten([a \in 1..n |-> [b \in 1..(n - a) |-> <<a, a + b>>]])
        constraintOf(p) ==
            LET subject1 == subjectKeys[p[1]]
                subject2 == subjectKeys[p[2]]
                commonTeachers == teachersOf(subject1) \cap teachersOf(subject2)
                conflictingVars ==
                    IdsWhere(inSection, LAMBDA v :
                        /\ v.subjectId \in {subject1, subject2}
                        /\ v.teacherId \in commonTeachers)
            IN  IF commonTeachers # {} /\ conflictingVars # <<>>
                THEN << MkConstraint(<<"teacher_diversity", sectionKey, subject1, subject2>>,
                            "resource_conflict", conflictingVars) >>
                ELSE <<>>
    IN  Flatten([k \in 1..Len(pairs) |-> constraintOf(pairs[k])])

\* addTeacherDiversityConstraints
addTeacherDiversityConstraints(vs) ==
    LET sectionKeys == KeysOf(vs, LAMBDA v : <<v.courseId, v.section>>)
    IN  Flatten([k \in 1..Len(sectionKeys) |-> DiversityOfSection(vs, sectionKeys[k])])

\* addWorkloadConstraints
addWorkloadConstraints(vs) ==
    LET keys == KeysOf(vs, LAMBDA v : v.teacherId)
    IN  [k \in 1..Len(keys) |->
            MkConstraint(<<"workload", keys[k]>>, "teacher_availability",
                IdsWhere(vs, LAMBDA v : v.teacherId = keys[k]))]

\* initializeConstraints
initializeConstraints(vs) ==
    addResourceConflictConstraints(vs) \o addSubjectRequirementConstraints(vs)
        \o addTeacherDiversityConstraints(vs) \o addWorkloadConstraints(vs)

-----------------------------------------------------------------------------
(* CPSATSolver: constraint propagation and backtracking search *)

maxIterations == 100

InMap(vs, varId) == \E m \in 1..Len(vs) : vs[m].id = varId

Elements(list) == {list[k] : k \in 1..Len(list)}

\* propagateConstraint: the variables and the constraint after the call, and
\* the value it returns
propagateConstraint(vs, constraint) ==
    LET activeVariables ==
            Filter(constraint.variables, {k \in 1..Len(constraint.variables) :
                \E m \in 1..Len(vs) : vs[m].id = constraint.variables[k] /\ vs[m].domain})
        others == {varId \in Elements(constraint.variables) :
                      varId # activeVariables[1] /\ InMap(vs, varId)}
    IN  IF constraint.type = "resource_conflict" /\ Len(activeVariables) = 1
        THEN [variables |-> [m \in 1..Len(vs) |->
                                IF vs[m].id \in others
                                THEN [vs[m] EXCEPT !.domain = FALSE] ELSE vs[m]],
              constraint |-> [constraint EXCEPT !.satisfied = TRUE],
              changed |-> others # {}]
        ELSE [variables |-> vs, constraint |-> constraint, changed |-> FALSE]

RECURSIVE PropagateFrom(_, _, _, _)
\* the for loop over this.constraintList, from index k
PropagateFrom(vs, cl, k, ch) ==
    IF k > Len(cl) THEN [variables |-> vs, constraintList |-> cl, changed |-> ch]
    ELSE LET r == propagateConstraint(vs, cl[k])
         IN  PropagateFrom(r.variables, [cl EXCEPT ![k] = r.constraint], k + 1,
                           ch \/ r.changed)

\* one iteration of the while loop of constraintPropagation
PropagationPass(vs, cl) ==
    LET r == PropagateFrom(vs, cl, 1, FALSE)
        kept == Filter(r.variables, {m \in 1..Len(r.variables) : r.variables[m].domain})
    IN  [variables |-> kept, constraintList |-> r.constraintList,
         changed |-> r.changed \/ Len(kept) < Len(r.variables)]

\* Map.prototype.set / get on the assignment, a list of [id, value] entries
AssignSet(a, varId, value) ==
    IF \E k \in 1..Len(a) : a[k].id = varId
    THEN [k \in 1..Len(a) |-> IF a[k].id = varId THEN [id |-> varId, value |-> value] ELSE a[k]]
    ELSE Append(a, [id |-> varId, value |-> value])

IsTrueIn(a, varId) == \E k \in 1..Len(a) : a[k].id = varId /\ a[k].value

\* checkConstraint
checkConstraint(constraint, a) ==
    IF constraint.type = "resource_conflict"
    THEN Cardinality({k \in 1..Len(constraint.variables) :
                         IsTrueIn(a, constraint.variables[k])}) <= 1
    ELSE TRUE

\* isConsistent
isConsistent(a, variable) ==
    \A c \in 1..Len(constraintList) :
        variable \in Elements(constraintList[c].variables)
            => checkConstraint(constraintList[c], a)

\* forwardCheck
forwardCheck(a, remaining) ==
    Filter(remaining, {k \in 1..Len(remaining) :
        isConsistent(AssignSet(a, remaining[k], TRUE), remaining[k])})

\* countConflicts
countConflicts(variableId) ==
    Cardinality({c \in 1..Len(constraintList) :
                    variableId \in Elements(constraintList[c].variables)})

\* chooseVariable: the first variable with the fewest constraints
chooseVariable(unassigned) ==
    unassigned[CHOOSE k \in 1..Len(unassigned) :
        /\ \A m \in 1..Len(unassigned) :
              countConflicts(unassigned[k]) <= countConflicts(unassigned[m])
        /\ \A m \in 1..(k - 1) :
              countConflicts(unassigned[m]) > countConflicts(unassigned[k])]

\* the `${subject.id}_${section}` keys isAssignmentComplete requires
requiredSubjects ==
    UNION { { <<subjects[j].id, courses[c].sections[s]>> :
                s \in 1..Len(courses[c].sections),
                j \in {n \in 1..Len(subjects) : subjects[n].courseId = courses[c].id} }
            : c \in 1..Len(courses) }

assignedSubjects(a) ==
    { <<variables[m].subjectId, variables[m].section>> :
        m \in {n \in 1..Len(variables) : IsTrueIn(a, variables[n].id)} }

\* isAssignmentComplete: assigned / max(required, 1) >= 0.7
isAssignmentComplete(a) ==
    10 * Cardinality(assignedSubjects(a)) >= 7 * Max(Cardinality(requiredSubjects), 1)

RECURSIVE backtrack(_, _)
\* backtrack: an assignment the search deletes from on failure is, on return,
\* the assignment it was called with
backtrack(a, unassigned) ==
    IF unassigned = <<>>
    THEN IF isAssignmentComplete(a) THEN [found |-> TRUE, map |-> a] ELSE NoAssignment
    ELSE LET variable == chooseVariable(unassigned)
             remaining == Filter(unassigned, {k \in 1..Len(unassigned) :
                                                 unassigned[k] # variable})
             withTrue == AssignSet(a, variable, TRUE)
             withFalse == AssignSet(a, variable, FALSE)
             triedTrue == IF isConsistent(withTrue, variable)
                          THEN backtrack(withTrue, forwardCheck(withTrue, remaining))
                          ELSE NoAssignment
         IN  IF triedTrue.found THEN triedTrue
             ELSE IF isConsistent(withFalse, variable)
                  THEN backtrack(withFalse, remaining)
                  ELSE NoAssignment

\* backtrackingSearch
backtrackingSearch ==
    backtrack(<<>>, IdsWhere(variables, LAMBDA v : v.domain))

\* assignmentToSchedule; the random class id is modelled by the position
assignmentToSchedule(a) ==
    LET selected == Filter(a, {k \in 1..Len(a) :
                        /\ a[k].value
                        /\ InMap(variables, a[k].id)
                        /\ FirstWithId(timeSlots, a[k].id[6]) # {}})
    IN  [k \in 1..Len(selected) |->
            LET variable == variables[CHOOSE m \in 1..Len(variables) :
                                          variables[m].id = selected[k].id]
                timeSlot == timeSlots[CHOOSE m \in FirstWithId(timeSlots, variable.timeSlotId) : TRUE]
            IN  [id |-> k, courseId |-> variable.courseId, subjectId |-> variable.subjectId,
                 section |-> variable.section, teacherId |-> variable.teacherId,
                 roomId |-> variable.roomId, timeSlotId |-> variable.timeSlotId,
                 day |-> timeSlot.day, startTime |-> timeSlot.startTime,
                 endTime |-> timeSlot.endTime]]

-----------------------------------------------------------------------------
(* CPSATSolver: the greedy fallback, conflict detection, fitness, solve *)

\* getConstraintScore without its Math.log(studentsCount) * 5 term: the
\* courses of the inputs all have the same studentsCount, so the term is the
\* same in both scores the comparator subtracts
getConstraintScore(course) ==
    Len(course.requiredEquipment) * 10 + course.sessionsPerWeek * 3

RECURSIVE InsertByScore(_, _)
InsertByScore(sorted, course) ==
    IF sorted = <<>> THEN <<course>>
    ELSE IF getConstraintScore(Head(sorted)) >= getConstraintScore(course)
         THEN <<Head(sorted)>> \o InsertByScore(Tail(sorted), course)
         ELSE <<course>> \o sorted

RECURSIVE SortByScore(_)
\* [...this.courses].sort((a, b) => score(b) - score(a)), a stable sort
SortByScore(list) ==
    IF list = <<>> THEN <<>>
    ELSE InsertByScore(SortByScore(SubSeq(list, 1, Len(list) - 1)), list[Len(list)])

\* findBestAssignment: the chosen class as a list of at most one element;
\* the usage maps are kept as sets of (resource, day, startTime) keys
findBestAssignment(course, teacher, roomUsage, teacherUsage, classId) ==
    LET nr == Len(rooms)
        ns == Len(timeSlots)
        ok(k) ==
            LET room == rooms[((k - 1) \div ns) + 1]
                timeSlot == timeSlots[((k - 1) % ns) + 1]
            IN  /\ room.type = course.roomType
                /\ room.capacity >= course.studentsCount
                /\ \A e \in 1..Len(course.requiredEquipment) :
                      course.requiredEquipment[e] \in room.equipment
                /\ \E avail \in teacher.availability :
                      avail.day = timeSlot.day /\ timeSlot.id \in avail.timeSlots
                /\ <<room.id, timeSlot.day, timeSlot.startTime>> \notin roomUsage
                /\ <<teacher.id, timeSlot.day, timeSlot.startTime>> \notin teacherUsage
        availableAssignments == {k \in 1..(nr * ns) : ok(k)}
        preferredAssignments ==
            {k \in availableAssignments :
                LET st == timeSlots[((k - 1) % ns) + 1].startTime
                IN  st >= preferredStartTime /\ st <= preferredEndTime}
        from == IF preferredAssignments # {} THEN preferredAssignments
                ELSE availableAssignments
        best == CHOOSE k \in from : \A m \in from : k <= m
        room == rooms[((best - 1) \div ns) + 1]
        timeSlot == timeSlots[((best - 1) % ns) + 1]
    IN  IF availableAssignments = {} THEN <<>>
        ELSE << [id |-> classId, courseId |-> course.id, subjectId |-> "",
                 section |-> "", teacherId |-> teacher.id, roomId |-> room.id,
                 timeSlotId |-> timeSlot.id, day |-> timeSlot.day,
                 startTime |-> timeSlot.startTime, endTime |-> timeSlot.endTime] >>

RECURSIVE GreedyFrom(_, _, _, _, _, _)
\* the two nested loops of generateConstraintBasedSchedule, from course c of
\* the sorted list and session number `session`
GreedyFrom(sortedCourses, c, session, schedule, roomUsage, teacherUsage) ==
    IF c > Len(sortedCourses) THEN schedule
    ELSE LET course == sortedCourses[c]
             t == FirstWithId(teachers, course.teacherId)
         IN  IF t = {} \/ session >= course.sessionsPerWeek
             THEN GreedyFrom(sortedCourses, c + 1, 0, schedule, roomUsage, teacherUsage)
             ELSE LET teacher == teachers[CHOOSE k \in t : TRUE]
                      found == findBestAssignment(course, teacher, roomUsage,
                                                  teacherUsage, Len(schedule) + 1)
                  IN  IF found = <<>>
                      THEN GreedyFrom(sortedCourses, c, session + 1, schedule,
                                      roomUsage, teacherUsage)
                      ELSE GreedyFrom(sortedCourses, c, session + 1,
                               schedule \o found,
                               roomUsage \cup {<<found[1].roomId, found[1].day, found[1].startTime>>},
                               teacherUsage \cup {<<found[1].teacherId, found[1].day, found[1].startTime>>})

\* generateConstraintBasedSchedule
generateConstraintBasedSchedule ==
    GreedyFrom(SortByScore(courses), 1, 0, <<>>, {}, {})

\* the conflicts of the groups of more than one class under one key
GroupConflicts(schedule, type, Key(_)) ==
    LET keys == KeysOf(schedule, Key)
        groups == [k \in 1..Len(keys) |->
                      [type |-> type, severity |-> "high", key |-> keys[k],
                       classes |-> IdsWhere(schedule, LAMBDA cls : Key(cls) = keys[k])]]
    IN  Filter(groups, {k \in 1..Len(groups) : Len(groups[k].classes) > 1})

\* CPSATSolver.detectConflicts: room groups, then teacher groups, by
\* `${id}_${day}_${startTime}`
cpsatDetectConflicts(schedule) ==
    GroupConflicts(schedule, "room_conflict",
                   LAMBDA cls : <<cls.roomId, cls.day, cls.startTime>>)
    \o GroupConflicts(schedule, "teacher_conflict",
                      LAMBDA cls : <<cls.teacherId, cls.day, cls.startTime>>)

\* CPSATSolver.calculateFitness
cpsatCalculateFitness(schedule) ==
    Max(1000 - Len(cpsatDetectConflicts(schedule)) * 50, 0)

\* the OptimizationResult solve builds around a schedule; of the metrics the
\* conflict count is modelled, the ratios are not
CspResultOf(schedule) ==
    [kind |-> "result", schedule |-> schedule,
     fitness |-> cpsatCalculateFitness(schedule),
     conflicts |-> cpsatDetectConflicts(schedule),
     metrics |-> [totalConflicts |-> Len(cpsatDetectConflicts(schedule))],
     generationData |-> <<>>]

\* the inputs of the solver runs
InitCSP ==
    /\ timeSlots \in CspSlotLists
    /\ courses \in CspCourseLists
    /\ subjects \in {Prefix(CspSubjectPool, n) : n \in 0..Len(CspSubjectPool)}
    /\ teachers \in CspTeacherLists(timeSlots)
    /\ rooms \in CspRoomLists
    /\ semesterParity \in {"", "odd"}
    /\ OptIdle
    /\ repairInput = <<>> /\ repairRuns = <<>>
    /\ EvoIdle
    /\ AuxIdle
    /\ cspPc = "solve"
    /\ variables = <<>>
    /\ constraintList = <<>>
    /\ changed = FALSE
    /\ iterations = 0
    /\ assignment = NoAssignment
    /\ cspResult = NoResult

cspFrame == <<inputVars, optVars, repairInput, repairRuns, evoVars, auxVars>>

\* solve: initializeVariables, initializeConstraints, and the locals of
\* constraintPropagation
InitializeCsp ==
    /\ cspPc = "solve"
    /\ variables' = initializeVariables
    /\ constraintList' = initializeConstraints(initializeVariables)
    /\ changed' = TRUE
    /\ iterations' = 0
    /\ cspPc' = "propagate"
    /\ UNCHANGED <<assignment, cspResult, cspFrame>>

\* constraintPropagation: one iteration of the while loop
Propagate ==
    /\ cspPc = "propagate"
    /\ changed /\ iterations < maxIterations
    /\ LET r == PropagationPass(variables, constraintList)
       IN  /\ variables' = r.variables
           /\ constraintList' = r.constraintList
           /\ changed' = r.changed
    /\ iterations' = iterations + 1
    /\ UNCHANGED <<cspPc, assignment, cspResult, cspFrame>>

\* constraintPropagation returns; backtrackingSearch
Search ==
    /\ cspPc = "propagate"
    /\ ~(changed /\ iterations < maxIterations)
    /\ assignment' = backtrackingSearch
    /\ cspPc' = "searched"
    /\ UNCHANGED <<variables, constraintList, changed, iterations, cspResult, cspFrame>>

\* if (assignment): the schedule of the selected variables
ReturnAssignment ==
    /\ cspPc = "searched"
    /\ assignment.found
    /\ cspResult' = CspResultOf(assignmentToSchedule(assignment.map))
    /\ cspPc' = "done"
    /\ UNCHANGED <<variables, constraintList, changed, iterations, assignment, cspFrame>>

\* mutant: infeasibility is surfaced as a failure instead of the fallback
ReturnRelaxed_Throws ==
    /\ cspPc = "searched"
    /\ ~assignment.found
    /\ cspResult' = [kind |-> "error"]
    /\ cspPc' = "done"
    /\ UNCHANGED <<variables, constraintList, changed, iterations, assignment, cspFrame>>

\* else: solveWithRelaxedConstraints
ReturnRelaxed ==
    /\ cspPc = "searched"
    /\ ~assignment.found
    /\ cspResult' = CspResultOf(generateConstraintBasedSchedule)
    /\ cspPc' = "done"
    /\ UNCHANGED <<variables, constraintList, changed, iterations, assignment, cspFrame>>

NextCSP == InitializeCsp \/ Propagate \/ Search \/ ReturnAssignment \/ ReturnRelaxed

SpecCSP == InitCSP /\ [][NextCSP]_vars

\* the (course, subject, section, teacher, room, slot) of each class, in order
PlacesOf(schedule) ==
    [k \in 1..Len(schedule) |->
        <<schedule[k].courseId, schedule[k].subjectId, schedule[k].section,
          schedule[k].teacherId, schedule[k].roomId, schedule[k].timeSlotId>>]

\* the ids of the variables the assignment selects, in order
SelectedIds(a) ==
    LET sel == Filter(a, {k \in 1..Len(a) : a[k].value})
    IN  [k \in 1..Len(sel) |-> sel[k].id]

\* C11: solve always returns an OptimizationResult: when the search found no
\* assignment reaching the coverage threshold, its schedule is the one the
\* greedy constructive scheduler builds (with the conflicts and the fitness of
\* that schedule); when the search succeeded, its schedule is exactly the
\* selected variables.
C11_InfeasibilityRecovered ==
    cspPc = "done" =>
        /\ cspResult.kind = "result"
        /\ ~assignment.found =>
              /\ cspResult.schedule = generateConstraintBasedSchedule
              /\ cspResult.conflicts = cpsatDetectConflicts(generateConstraintBasedSchedule)
        /\ assignment.found =>
              PlacesOf(cspResult.schedule) = SelectedIds(assignment.map)

\* the search ran over candidate variables, failed, and the fallback placed classes
C11_Witness ==
    /\ cspPc = "done"
    /\ ~assignment.found
    /\ variables # <<>>
    /\ cspResult.kind = "result"
    /\ cspResult.schedule # <<>>

-----------------------------------------------------------------------------
(* GeneticAlgorithm.calculateFitness applied to two schedules of one input *)

MaxEvalLen == 2

\* three slots of one day: one whose start is not before its end, two that
\* overlap with different starts
FitnessSlots ==
    << MkSlot(1, [day |-> "Monday", startTime |-> 9,  endTime |-> 9]),
       MkSlot(2, [day |-> "Monday", startTime |-> 9,  endTime |-> 11]),
       MkSlot(3, [day |-> "Monday", startTime |-> 10, endTime |-> 11]) >>

InitFitness ==
    /\ timeSlots = FitnessSlots
    /\ \E av2 \in {{}, AvailableAtAll(FitnessSlots)} :
          teachers = GaTeachers(AvailableAtAll(FitnessSlots), av2)
    /\ rooms = RoomPool
    /\ courses = EvoCourses
    /\ subjects = Prefix(SubjectPool, 1)
    /\ semesterParity = ""
    /\ evalSchedules \in
          (UNION {GaSchedules(n, timeSlots) : n \in 0..MaxEvalLen})
          \X (UNION {GaSchedules(n, timeSlots) : n \in 0..MaxEvalLen})
    /\ evalFitness = <<>>
    /\ constructedWith = <<>> /\ callerWrites = 0
    /\ detected = <<>>
    /\ AppIdle
    /\ OptIdle
    /\ repairInput = <<>> /\ repairRuns = <<>>
    /\ EvoIdle
    /\ CspIdle

\* the two calls of calculateFitness
Evaluate ==
    /\ evalFitness = <<>>
    /\ evalFitness' = <<calculateFitness(evalSchedules[1]), calculateFitness(evalSchedules[2])>>
    /\ UNCHANGED <<evalSchedules, constructedWith, callerWrites, detected, appVars,
                   inputVars, optVars, repairInput, repairRuns, evoVars, cspVars>>

NextFitness == Evaluate

SpecFitness == InitFitness /\ [][NextFitness]_vars

\* the six quality terms of a schedule, each as the fraction it is (numerator
\* and denominator), in the order workload, room utilisation, time
\* distribution, constraint satisfaction, gap, coverage
SixTerms(schedule) ==
    LET n == Len(schedule)
    IN  << IF n = 0 THEN <<0, 1>> ELSE <<WorkloadBalanceNum(schedule), n * n>>,
           <<RoomUtilizationNum(schedule), 5 * Len(timeSlots) * Len(rooms)>>,
           IF n = 0 THEN <<0, 1>>
           ELSE <<TimeDistributionNum(schedule), TimeDistributionDen(schedule)>>,
           IF n = 0 THEN <<0, 1>> ELSE <<ConstraintSatisfactionNum(schedule), 3 * n>>,
           <<calculateGapPenalty(schedule), 1>>,
           IF generateActualCourses = <<>> THEN <<0, 1>>
           ELSE <<CoverageNum(schedule), Len(generateActualCourses)>> >>

SameTerms(schedule1, schedule2) ==
    \A k \in 1..6 :
        SixTerms(schedule1)[k][1] * SixTerms(schedule2)[k][2]
            = SixTerms(schedule2)[k][1] * SixTerms(schedule1)[k][2]

\* C12: of two evaluations whose six quality terms are equal, the one with at
\* least as many detected conflicts has a fitness less than or equal to the
\* other's; and no fitness is below 0.
C12_FitnessMonotone ==
    evalFitness # <<>> =>
        /\ evalFitness[1] >= 0 /\ evalFitness[2] >= 0
        /\ ( /\ SameTerms(evalSchedules[1], evalSchedules[2])
             /\ Len(detectConflicts(evalSchedules[1])) >= Len(detectConflicts(evalSchedules[2])) )
           => evalFitness[1] <= evalFitness[2]

\* two evaluations with equal terms, the first with more conflicts and a
\* strictly lower fitness
C12_Witness ==
    /\ evalFitness # <<>>
    /\ SameTerms(evalSchedules[1], evalSchedules[2])
    /\ Len(detectConflicts(evalSchedules[1])) > Len(detectConflicts(evalSchedules[2]))
    /\ evalFitness[1] < evalFitness[2]

-----------------------------------------------------------------------------
(* HybridOptimizer.optimizeWithCpsatFirst: the solver, then the generation  *)
(* loop on a population seeded with the solver's result.  The fitness of    *)
(* the solver's result is kept on the scale of calculateFitness, that is   *)
(* multiplied by FitnessScale.                                              *)

MaxRefineGenerations == 2

RefineParams ==
    { [populationSize |-> MaxPop, generations |-> MaxRefineGenerations, mutationRate |-> 10,
       crossoverRate |-> 80, eliteSize |-> e, generationOffset |-> 0]
      : e \in 0..1 }

\* the ClassSchedule objects of a result, not yet on the heap
AsNewObjects(schedule) ==
    [k \in 1..Len(schedule) |->
        [f \in (DOMAIN schedule[k]) \cup {"obj"} |->
            IF f = "obj" THEN 0 ELSE schedule[k][f]]]

RECURSIVE VariationFrom(_, _, _)
\* createVariation: the changes still to make on the copy `variation`; each
\* change replaces one entry by a new object in a random time slot
VariationFrom(h, variation, numChanges) ==
    IF numChanges = 0 \/ variation = <<>>
    THEN {[heap |-> h, schedule |-> variation]}
    ELSE UNION { VariationFrom(
                    Append(h, [MoveTo(h[variation[index]], timeSlots[t]) EXCEPT !.obj = Len(h) + 1]),
                    [variation EXCEPT ![index] = Len(h) + 1],
                    numChanges - 1)
                 : <<index, t>> \in (1..Len(variation)) \X (1..Len(timeSlots)) }

\* createVariation: Math.floor(schedule.length * 0.1) + 1 changes
createVariation(h, schedule) ==
    VariationFrom(h, schedule, (Len(schedule) \div 10) + 1)

InitCspFirst ==
    /\ timeSlots = EvoSlots
    /\ courses = <<CspCourse("c1", <<"A">>, "t1", 1)>>
    /\ subjects = Prefix(CspSubjectPool, 1)
    /\ teachers \in { <<CspTeacher("t1", av)>> : av \in {{}, AvailableAtAll(EvoSlots)} }
    /\ rooms = << [id |-> "r1", type |-> "theory", capacity |-> 60, equipment |-> {}] >>
    /\ semesterParity = ""
    /\ OptIdle
    /\ repairInput = <<>> /\ repairRuns = <<>>
    /\ AuxIdle
    /\ CspIdle
    /\ gaPc = "cpsatFirst"
    /\ params \in RefineParams
    /\ heap = <<>>
    /\ population = <<>>
    /\ newPopulation = <<>>
    /\ bestIndividual = <<>>
    /\ generation = 0
    /\ stagnationCount = 0
    /\ currentMutationRate = 0
    /\ lastBestFitness = 0
    /\ bestBefore = 0
    /\ generationData = <<>>
    /\ gaProgressLog = <<>>
    /\ gaResult = NoResult
    /\ elitesBefore = <<>>

strategyFrame == <<inputVars, optVars, repairInput, repairRuns, auxVars, bestBefore>>

\* onProgress?.(10, 0, 0); this.cpsatSolver.solve() is started
CpsatFirstStart ==
    /\ gaPc = "cpsatFirst"
    /\ cspPc = "idle"
    /\ gaProgressLog' = Append(gaProgressLog,
           [progress |-> <<10, 1>>, generation |-> 0, bestFitness |-> 0])
    /\ cspPc' = "solve"
    /\ gaPc' = "awaitSolve"
    /\ UNCHANGED <<params, heap, population, newPopulation, bestIndividual, generation,
                   stagnationCount, currentMutationRate, lastBestFitness, generationData,
                   gaResult, elitesBefore, variables, constraintList, changed, iterations,
                   assignment, cspResult, strategyFrame>>

\* the solver's result arrives: refine it (first individual of
\* refineWithGeneticAlgorithm) or seed a random population with it
\* (first individual of optimizeWithGeneticSeeding)
CpsatFirstBranch ==
    /\ gaPc = "awaitSolve"
    /\ cspPc = "done"
    /\ LET stored == Store(heap, AsNewObjects(cspResult.schedule))
           seed == [schedule |-> stored.schedule,
                    fitness |-> cspResult.fitness * FitnessScale]
       IN  IF cspResult.fitness > 500 /\ Len(cspResult.conflicts) < 5
           THEN /\ gaProgressLog' = Append(gaProgressLog,
                       [progress |-> <<50, 1>>, generation |-> 0,
                        bestFitness |-> cspResult.fitness * FitnessScale])
                /\ heap' = stored.heap
                /\ population' = <<seed>>
                /\ params' = [params EXCEPT !.generationOffset = 50]
                /\ gaPc' = IF 1 < params.populationSize THEN "refine" ELSE "populate"
           ELSE /\ IF Len(cspResult.schedule) > 0
                   THEN heap' = stored.heap /\ population' = <<seed>>
                   ELSE UNCHANGED <<heap, population>>
                /\ gaPc' = "populate"
                /\ UNCHANGED <<gaProgressLog, params>>
    /\ UNCHANGED <<newPopulation, bestIndividual, generation, stagnationCount,
                   currentMutationRate, lastBestFitness, generationData, gaResult,
                   elitesBefore, cspVars, strategyFrame>>

\* refineWithGeneticAlgorithm: one iteration of the loop that pushes variations
Refine ==
    /\ gaPc = "refine"
    /\ \E v \in createVariation(heap, population[1].schedule) :
          /\ heap' = v.heap
          /\ population' = Append(population,
                 [schedule |-> v.schedule,
                  fitness |-> calculateFitness(Deref(v.heap, v.schedule))])
    /\ gaPc' = IF Len(population) + 1 < params.populationSize THEN "refine" ELSE "populate"
    /\ UNCHANGED <<params, newPopulation, bestIndividual, generation, stagnationCount,
                   currentMutationRate, lastBestFitness, generationData, gaProgressLog,
                   gaResult, elitesBefore, cspVars, strategyFrame>>

NextCspFirst ==
    \/ CpsatFirstStart \/ InitializeCsp \/ Propagate \/ Search
    \/ ReturnAssignment \/ ReturnRelaxed
    \/ CpsatFirstBranch \/ Refine \/ BeginEvolution
    \/ GenStart \/ Fill \/ GenEnd \/ ReturnBest

SpecCspFirst == InitCspFirst /\ [][NextCspFirst]_vars

\* the calls of onProgress made by the generation loop: the calls at the
\* phase boundaries of the strategy pass the generation index 0, the loop
\* passes generation + 1 + generationOffset
LoopCalls == SelectSeq(gaProgressLog, LAMBDA call : call.generation # 0)

\* C13: the generation loop calls onProgress once per executed generation, and
\* the generation indices of these calls, in call order, are 1, 2, 3, ...
C13_GenerationIndicesContinuous ==
    /\ Len(LoopCalls) = Len(generationData)
    /\ \A k \in 1..Len(LoopCalls) : LoopCalls[k].generation = k

\* the variables of a variable list that are still candidates
CandidatesOf(vs) == { v \in 1..Len(vs) : vs[v].domain }

\* Scenario D in the solver: exactly one (teacher, room, slot) passes
\* isVariableValid, and the candidate variables of two different subjects
\* compete for it
ScenarioD ==
    LET vs == initializeVariables
        feasible == { <<vs[v].teacherId, vs[v].roomId, vs[v].timeSlotId>> : v \in CandidatesOf(vs) }
    IN  /\ Cardinality(feasible) = 1
        /\ Cardinality(CandidatesOf(vs)) = 2
        /\ \E v, w \in CandidatesOf(vs) : vs[v].subjectId # vs[w].subjectId

\* C14: in Scenario D, when constraintPropagation has returned and before
\* backtracking search has changed anything, exactly one of the two competing
\* variables is left as candidate; the other one is disabled or removed
C14_PropagationSelectsOne ==
    (cspPc = "searched" /\ ScenarioD) => Cardinality(CandidatesOf(variables)) = 1

-----------------------------------------------------------------------------
\* The caller of the optimizer.  The constructor stores the arrays it is given
\* (this.courses = courses, ...), so the caller and the optimizer hold the same
\* array objects: a change the caller makes to one of them is a change of the
\* optimizer's field.  optimize gives the caller the chance to run at each
\* `await` of its progress loop, and before it is called.

MaxCallerWrites == 1

\* the collections handed to the constructor
InputsOf ==
    [courses |-> courses, teachers |-> teachers, rooms |-> rooms,
     timeSlots |-> timeSlots, subjects |-> subjects]

InitShared ==
    /\ InitGeneral
    /\ OptIdle
    /\ repairInput = <<>> /\ repairRuns = <<>>
    /\ EvoIdle
    /\ CspIdle
    /\ evalSchedules = <<>> /\ evalFitness = <<>>
    /\ constructedWith = InputsOf
    /\ callerWrites = 0
    /\ detected = <<>>
    /\ AppIdle

\* the caller changes one of the arrays it passed in: subjects.push(s),
\* subjects.length = 0 or rooms.pop(); the optimizer is not running (before
\* optimize is called, or suspended at the await of the progress loop)
CallerMutates ==
    /\ \/ pc = "start"
       \/ pc = "progress" /\ i > 0
    /\ callerWrites < MaxCallerWrites
    /\ \/ /\ \E n \in 1..Len(SubjectPool) :
                /\ \A k \in 1..Len(subjects) : subjects[k].id # SubjectPool[n].id
                /\ subjects' = Append(subjects, SubjectPool[n])
          /\ UNCHANGED rooms
       \/ /\ subjects # <<>>
          /\ subjects' = <<>>
          /\ UNCHANGED rooms
       \/ /\ rooms # <<>>
          /\ rooms' = SubSeq(rooms, 1, Len(rooms) - 1)
          /\ UNCHANGED subjects
    /\ callerWrites' = callerWrites + 1
    /\ UNCHANGED <<courses, teachers, timeSlots, semesterParity, optVars, repairInput,
                   repairRuns, evoVars, cspVars, evalSchedules, evalFitness,
                   constructedWith, detected, appVars>>

NextShared == Next \/ CallerMutates

SpecShared == InitShared /\ [][NextShared]_vars

IdsOf(list) == { list[k].id : k \in 1..Len(list) }

\* C15: a run is isolated from the caller's data: whatever the caller does to
\* the collections after the construction, the schedule the run returns is
\* built from the collections as they were at the construction; in particular
\* every subject, teacher, room and time slot in it is one of them
C15_RunIsolated ==
    pc = "done" =>
        \A k \in 1..Len(result.schedule) :
            /\ result.schedule[k].subjectId \in IdsOf(constructedWith.subjects)
            /\ result.schedule[k].teacherId \in IdsOf(constructedWith.teachers)
            /\ result.schedule[k].roomId \in IdsOf(constructedWith.rooms)
            /\ result.schedule[k].timeSlotId \in IdsOf(constructedWith.timeSlots)

\* the step that starts generation g > 0 of the loop of runGeneticEvolution
StartsLaterGeneration == gaPc = "gen" /\ gaPc' = "fill" /\ generation > 0

\* the best-ever fitness improved during the generation that just ended
ImprovedLastGeneration == bestIndividual.fitness > bestBefore

\* C16: at the start of every generation g > 0 the stagnation counter is reset
\* to 0 (and the base mutation rate is in effect) when the best-ever fitness
\* improved during generation g-1, and is incremented by 1 when it did not;
\* the rate in effect is min(2 x base, 0.3) exactly when the counter exceeds 10
C16_StagnationHandling ==
    [][StartsLaterGeneration =>
        /\ ImprovedLastGeneration =>
              stagnationCount' = 0 /\ currentMutationRate' = params.mutationRate
        /\ ~ImprovedLastGeneration => stagnationCount' = stagnationCount + 1
        /\ currentMutationRate' = IF stagnationCount' > 10
                                  THEN Min(params.mutationRate * 2, 30)
                                  ELSE params.mutationRate]_vars

\* the time slots in which the teacher of an assignment is available
AvailableSlotsOf(classItem) ==
    { k \in 1..Len(timeSlots) :
        \E t \in 1..Len(teachers) :
            /\ teachers[t].id = classItem.teacherId
            /\ TeacherAvailableAt(teachers[t], timeSlots[k]) }

\* the relocations of an assignment that conflict with nothing kept so far
FreeRelocations(classItem, kept) ==
    { MoveTo(classItem, timeSlots[k]) : k \in
        { m \in AvailableSlotsOf(classItem) :
            detectConflictsForClass(MoveTo(classItem, timeSlots[m]), kept) = <<>> } }

\* `out` treats every assignment of `input`, in order, in one of the three
\* ways; K is the set of input positions that have an assignment in `out`
ThreeWays(input, out) ==
    \E K \in SUBSET (1..Len(input)) :
        /\ Cardinality(K) = Len(out)
        /\ \A k \in 1..Len(input) :
              LET before == Cardinality({j \in K : j < k})
                  kept == SubSeq(out, 1, before)
              IN  IF k \in K
                  THEN IF detectConflictsForClass(input[k], kept) = <<>>
                       THEN out[before + 1] = input[k]
                       ELSE out[before + 1] \in FreeRelocations(input[k], kept)
                  ELSE /\ detectConflictsForClass(input[k], kept) # <<>>
                       /\ FreeRelocations(input[k], kept) = {}

\* C17: repairSchedule keeps an assignment that conflicts with nothing already
\* kept, otherwise relocates it to a slot of its teacher's availability where
\* it conflicts with nothing already kept, and leaves it out only if there is
\* no such slot (checked for inputs whose slots all start before they end)
C17_RepairThreeWays ==
    (AllSlotsProper /\ repairRuns # <<>>) => ThreeWays(repairInput, repairRuns[1])

-----------------------------------------------------------------------------
(* GeneticAlgorithm.crossover and GeneticAlgorithm.mutate applied to given   *)
(* parents: population holds the arguments, newPopulation what is returned. *)

MaxParentLen == 2
MaxParentObjects == 3

\* the two parents: every pair of schedules of up to MaxParentLen assignments
\* and MaxParentObjects assignments together, each assignment an object of its
\* own, with the fitness calculateFitness gives
InitOperators ==
    /\ timeSlots = EvoSlots
    /\ teachers = GaTeachers(AvailableAtAll(EvoSlots), AvailableAtAll(EvoSlots))
    /\ rooms = EvoRooms
    /\ courses = EvoCourses
    /\ subjects = Prefix(SubjectPool, 1)
    /\ semesterParity = ""
    /\ OptIdle
    /\ CspIdle
    /\ AuxIdle
    /\ repairInput = <<>> /\ repairRuns = <<>>
    /\ gaPc = "operators"
    /\ params \in {p \in EvoParams : p.eliteSize = 1}
    /\ \E n1, n2 \in 0..MaxParentLen :
          /\ n1 + n2 <= MaxParentObjects
          /\ heap \in GaSchedules(n1 + n2, EvoSlots)
          /\ population =
                << [schedule |-> [k \in 1..n1 |-> k],
                    fitness |-> calculateFitness(SubSeq(heap, 1, n1))],
                   [schedule |-> [k \in 1..n2 |-> n1 + k],
                    fitness |-> calculateFitness(SubSeq(heap, n1 + 1, n1 + n2))] >>
    /\ newPopulation = <<>>
    /\ bestIndividual = <<>>
    /\ generation = 0
    /\ stagnationCount = 0
    /\ currentMutationRate = 0
    /\ lastBestFitness = 0
    /\ bestBefore = 0
    /\ generationData = <<>>
    /\ gaProgressLog = <<>>
    /\ gaResult = NoResult
    /\ elitesBefore = <<>>

\* children = crossover(parent1, parent2)
Crossover ==
    /\ gaPc = "operators"
    /\ \E c \in crossover(heap, population[1], population[2]) :
          /\ heap' = c.heap
          /\ newPopulation' = c.children
    /\ gaPc' = "crossed"
    /\ UNCHANGED <<params, population, bestIndividual, generation, stagnationCount,
                   currentMutationRate, lastBestFitness, generationData, gaProgressLog,
                   gaResult, elitesBefore, evoFrame>>

\* mutated = mutate(parent1, params.mutationRate)
Mutate ==
    /\ gaPc = "operators"
    /\ \E m \in mutate(heap, population[1], params.mutationRate) :
          /\ heap' = m.heap
          /\ newPopulation' = <<m.individual>>
    /\ gaPc' = "mutated"
    /\ UNCHANGED <<params, population, bestIndividual, generation, stagnationCount,
                   currentMutationRate, lastBestFitness, generationData, gaProgressLog,
                   gaResult, elitesBefore, evoFrame>>

NextOperators == Crossover \/ Mutate

SpecOperators == InitOperators /\ [][NextOperators]_vars

\* no two assignments with the same teacher, or the same room, on the same day
\* at overlapping times
NoDoubleBooking(schedule) ==
    \A a, b \in 1..Len(schedule) :
        (a < b /\ schedule[a].day = schedule[b].day
               /\ timeSlotsOverlap(schedule[a], schedule[b]))
        => /\ schedule[a].teacherId # schedule[b].teacherId
           /\ schedule[a].roomId # schedule[b].roomId

\* C18: every individual crossover and mutate return, whatever the parents,
\* has a schedule without teacher or room double-booking
C18_OperatorsReturnRepaired ==
    gaPc \in {"crossed", "mutated"} =>
        \A k \in 1..Len(newPopulation) :
            NoDoubleBooking(Deref(heap, newPopulation[k].schedule))

-----------------------------------------------------------------------------
(* GeneticAlgorithm.generateRandomIndividual called once: population holds   *)
(* the individual it returns.                                                *)

InitRandom ==
    /\ timeSlots = EvoSlots
    /\ \E av1, av2 \in {{}, AvailableAtAll(EvoSlots)} : teachers = GaTeachers(av1, av2)
    /\ rooms \in {Prefix(EvoRooms, n) : n \in 1..Len(EvoRooms)}
    /\ courses \in {<<[id |-> "c1", sections |-> Prefix(<<"A", "B">>, n)]>> : n \in 1..2}
    /\ subjects \in {Prefix(SubjectPool, n) : n \in 1..2}
    /\ semesterParity = ""
    /\ OptIdle
    /\ CspIdle
    /\ AuxIdle
    /\ repairInput = <<>> /\ repairRuns = <<>>
    /\ gaPc = "generate"
    /\ params \in {p \in EvoParams : p.eliteSize = 1}
    /\ heap = <<>>
    /\ population = <<>>
    /\ newPopulation = <<>>
    /\ bestIndividual = <<>>
    /\ generation = 0
    /\ stagnationCount = 0
    /\ currentMutationRate = 0
    /\ lastBestFitness = 0
    /\ bestBefore = 0
    /\ generationData = <<>>
    /\ gaProgressLog = <<>>
    /\ gaResult = NoResult
    /\ elitesBefore = <<>>

\* individual = generateRandomIndividual(): the individual, or the TypeError
\* of availableTimeSlots[NaN].day
Generate ==
    /\ gaPc = "generate"
    /\ \E g \in generateRandomIndividual :
          IF g.crashed
          THEN /\ gaPc' = "crashed"
               /\ UNCHANGED <<heap, population>>
          ELSE LET stored == Store(heap, g.schedule)
               IN  /\ heap' = stored.heap
                   /\ population' = <<[schedule |-> stored.schedule, fitness |-> g.fitness]>>
                   /\ gaPc' = "generated"
    /\ UNCHANGED <<params, newPopulation, bestIndividual, generation, stagnationCount,
                   currentMutationRate, lastBestFitness, generationData, gaProgressLog,
                   gaResult, elitesBefore, evoFrame>>

NextRandom == Generate

SpecRandom == InitRandom /\ [][NextRandom]_vars

\* the time slots of the input that an assignment's teacher lists as available
InAvailability(cls) ==
    \E t \in 1..Len(teachers) : \E k \in 1..Len(timeSlots) :
        /\ teachers[t].id = cls.teacherId
        /\ timeSlots[k].id = cls.timeSlotId
        /\ TeacherAvailableAt(teachers[t], timeSlots[k])

\* C19: the schedule generateRandomIndividual returns has no two assignments
\* in the same room at the same (day, start time), no two assignments of the
\* same teacher at the same (day, start time), and every assignment is in a
\* slot of its teacher's availability
C19_RandomIndividualFree ==
    gaPc = "generated" =>
        LET schedule == Deref(heap, population[1].schedule)
        IN  /\ \A a, b \in 1..Len(schedule) :
                  (a < b /\ TimeKey(schedule[a]) = TimeKey(schedule[b]))
                  => /\ schedule[a].roomId # schedule[b].roomId
                     /\ schedule[a].teacherId # schedule[b].teacherId
            /\ \A a \in 1..Len(schedule) : InAvailability(schedule[a])

\* the variables the returned assignment selects
SelectedVariables ==
    { v \in 1..Len(variables) : IsTrueIn(assignment.map, variables[v].id) }

\* at most one selected variable per (teacher, time slot) and per (room, time slot)
AtMostOnePerResourceSlot ==
    \A v, w \in SelectedVariables :
        (v # w /\ variables[v].timeSlotId = variables[w].timeSlotId)
        => /\ variables[v].teacherId # variables[w].teacherId
           /\ variables[v].roomId # variables[w].roomId

\* no teacher and no room is in two classes of the schedule at the same time
NoResourceDoubleBooking(schedule) ==
    \A a, b \in 1..Len(schedule) :
        (a < b /\ schedule[a].day = schedule[b].day
               /\ schedule[a].startTime = schedule[b].startTime)
        => /\ schedule[a].teacherId # schedule[b].teacherId
           /\ schedule[a].roomId # schedule[b].roomId

\* C20: the assignment backtrackingSearch returns selects at most one variable
\* among those sharing a teacher and a time slot and at most one among those
\* sharing a room and a time slot, and the schedule solve builds from it has
\* no teacher or room double-booking
C20_SearchResultConflictFree ==
    (cspPc = "done" /\ assignment.found) =>
        /\ AtMostOnePerResourceSlot
        /\ NoResourceDoubleBooking(cspResult.schedule)

\* the first half of C20 alone
C20_AtMostOnePerSlotId ==
    (cspPc \in {"searched", "done"} /\ assignment.found) => AtMostOnePerResourceSlot

\* the teacher_diversity constraints of the constraint list
DiversityConstraints ==
    { c \in 1..Len(constraintList) : constraintList[c].id[1] = "teacher_diversity" }

\* two candidate variables of the same section for two different subjects,
\* with different teachers, rooms and time slots
DiversePair(v, w) ==
    /\ variables[v].domain /\ variables[w].domain
    /\ variables[v].courseId = variables[w].courseId
    /\ variables[v].section = variables[w].section
    /\ variables[v].subjectId # variables[w].subjectId
    /\ variables[v].teacherId # variables[w].teacherId
    /\ variables[v].roomId # variables[w].roomId
    /\ variables[v].timeSlotId # variables[w].timeSlotId

\* C21: the diversity constraints never forbid an assignment that selects two
\* different subjects of one section with two different teachers at different
\* slots and rooms: checkConstraint accepts it for every diversity constraint
C21_DiversityOnlyDiscourages ==
    cspPc \in {"propagate", "searched", "done"} =>
        \A v, w \in 1..Len(variables) :
            DiversePair(v, w) =>
                \A c \in DiversityConstraints :
                    checkConstraint(constraintList[c],
                        << [id |-> variables[v].id, value |-> TRUE],
                           [id |-> variables[w].id, value |-> TRUE] >>)

\* the demand units of the run: the (course, section, subject) triples for
\* which initializeVariables generates variables (after the parity filter)
DemandUnits ==
    { <<initializeVariables[v].courseId, initializeVariables[v].section,
        initializeVariables[v].subjectId>> : v \in 1..Len(initializeVariables) }

UnitOf(variable) == <<variable.courseId, variable.section, variable.subjectId>>

\* the demand units that still have a variable
CoverableUnits == { UnitOf(variables[v]) : v \in 1..Len(variables) }

\* an assignment that selects one variable (the first) of each unit of U
SelectingOnePer(U) ==
    LET firsts == Filter(variables, {v \in 1..Len(variables) :
                     /\ UnitOf(variables[v]) \in U
                     /\ \A w \in 1..(v - 1) : UnitOf(variables[w]) # UnitOf(variables[v])})
    IN  [k \in 1..Len(firsts) |-> [id |-> firsts[k].id, value |-> TRUE]]

\* C22: an assignment is accepted as complete exactly when at least 70% of the
\* demand units of the run (those for which variables are generated, after
\* the semester-parity filter) have a selected variable; an assignment that
\* covers every demand unit is accepted
C22_CompleteAtSeventyPercent ==
    (cspPc \in {"propagate", "searched", "done"} /\ DemandUnits # {}) =>
        \A U \in SUBSET CoverableUnits :
            isAssignmentComplete(SelectingOnePer(U))
                <=> 10 * Cardinality(U) >= 7 * Cardinality(DemandUnits)

-----------------------------------------------------------------------------
(* optimizeWithAdaptiveSwitch: a first phase of floor(0.3 * generations)     *)
(* generations on a population seeded with the solver's result, then, when   *)
(* the result's fitness is below 700, continueOptimization with the rest of  *)
(* the generations on twice the population.                                 *)

MaxAdaptiveGenerations == 4

\* slots 00:00-02:00, 01:00-02:00 and 23:00-24:00 on Monday
AdaptiveSlots ==
    << MkSlot(1, [day |-> "Monday", startTime |-> 0,  endTime |-> 2]),
       MkSlot(2, [day |-> "Monday", startTime |-> 1,  endTime |-> 2]),
       MkSlot(3, [day |-> "Monday", startTime |-> 23, endTime |-> 24]) >>

\* a theory and a lab subject that t1 teaches, and one that nobody teaches
AdaptiveSubjects ==
    << [id |-> "x", courseId |-> "c1", semester |-> 1, type |-> "theory"],
       [id |-> "w", courseId |-> "c1", semester |-> 1, type |-> "lab"],
       [id |-> "z", courseId |-> "c1", semester |-> 1, type |-> "theory"] >>

InitAdaptive ==
    /\ \/ timeSlots = EvoSlots /\ subjects = Prefix(AdaptiveSubjects, 1)
       \/ timeSlots = AdaptiveSlots /\ subjects = AdaptiveSubjects
    /\ courses = <<CspCourse("c1", <<"A">>, "", 1)>>
    /\ teachers = <<CspTeacher("t1", AvailableAtAll(timeSlots))>>
    /\ rooms = << [id |-> "r1", type |-> "theory", capacity |-> 60, equipment |-> {}],
                  [id |-> "r2", type |-> "lab", capacity |-> 60, equipment |-> {}] >>
    /\ semesterParity = ""
    /\ OptIdle
    /\ repairInput = <<>> /\ repairRuns = <<>>
    /\ AuxIdle
    /\ CspIdle
    /\ gaPc = "adaptive"
    /\ params = [populationSize |-> 1, generations |-> MaxAdaptiveGenerations,
                 mutationRate |-> 0, crossoverRate |-> 80, eliteSize |-> 1,
                 generationOffset |-> 0]
    /\ heap = <<>>
    /\ population = <<>>
    /\ newPopulation = <<>>
    /\ bestIndividual = <<>>
    /\ generation = 0
    /\ stagnationCount = 0
    /\ currentMutationRate = 0
    /\ lastBestFitness = 0
    /\ bestBefore = 0
    /\ generationData = <<>>
    /\ gaProgressLog = <<>>
    /\ gaResult = NoResult
    /\ elitesBefore = <<>>

\* switchPoint and firstPhaseParams, then the call of the solver; `passed`
\* keeps the params the strategy was called with
AdaptiveStart ==
    /\ gaPc = "adaptive"
    /\ cspPc = "idle"
    /\ LET switchPoint == (params.generations * 3) \div 10
       IN  params' = [populationSize |-> params.populationSize,
                      generations |-> switchPoint,
                      mutationRate |-> params.mutationRate,
                      crossoverRate |-> params.crossoverRate,
                      eliteSize |-> params.eliteSize,
                      generationOffset |-> 0,
                      phase |-> 1, passed |-> params]
    /\ cspPc' = "solve"
    /\ gaPc' = "awaitSeed"
    /\ UNCHANGED <<heap, population, newPopulation, bestIndividual, generation,
                   stagnationCount, currentMutationRate, lastBestFitness, generationData,
                   gaProgressLog, gaResult, elitesBefore, variables, constraintList,
                   changed, iterations, assignment, cspResult, strategyFrame>>

\* optimizeWithGeneticSeeding: the seed is pushed when its schedule is not
\* empty; the loop of random individuals is Populate
AdaptiveSeed ==
    /\ gaPc = "awaitSeed"
    /\ cspPc = "done"
    /\ LET stored == Store(heap, AsNewObjects(cspResult.schedule))
       IN  IF Len(cspResult.schedule) > 0
           THEN /\ heap' = stored.heap
                /\ population' = << [schedule |-> stored.schedule,
                                     fitness |-> cspResult.fitness * FitnessScale] >>
           ELSE UNCHANGED <<heap, population>>
    /\ gaPc' = "populate"
    /\ UNCHANGED <<params, newPopulation, bestIndividual, generation, stagnationCount,
                   currentMutationRate, lastBestFitness, generationData, gaProgressLog,
                   gaResult, elitesBefore, cspVars, strategyFrame>>

RECURSIVE ContinueFrom(_, _, _)
\* the while loop of continueOptimization: variations of the previous schedule
\* while the population is below half the size, random individuals after that
ContinueFrom(h, pop, size) ==
    IF Len(pop) >= size THEN {[crashed |-> FALSE, heap |-> h, population |-> pop]}
    ELSE IF 2 * Len(pop) < size
    THEN UNION { ContinueFrom(v.heap,
                     Append(pop, [schedule |-> v.schedule,
                                  fitness |-> calculateFitness(Deref(v.heap, v.schedule))]),
                     size)
                 : v \in createVariation(h, pop[1].schedule) }
    ELSE UNION { IF g.crashed
                 THEN {[crashed |-> TRUE, heap |-> h, population |-> pop]}
                 ELSE LET stored == Store(h, g.schedule)
                      IN  ContinueFrom(stored.heap,
                              Append(pop, [schedule |-> stored.schedule,
                                           fitness |-> g.fitness]),
                              size)
                 : g \in generateRandomIndividual }

\* the first phase has returned: `if (result.fitness < 700)` the second phase
\* starts from the returned schedule, else the result is returned
AdaptiveSwitch ==
    /\ gaPc = "done"
    /\ params.phase = 1
    /\ IF gaResult.fitness < 700 * FitnessScale
       THEN LET switchPoint == params.generations
                secondPhaseParams ==
                    [params EXCEPT
                        !.generations = params.passed.generations - switchPoint,
                        !.populationSize = Min(params.passed.populationSize * 2, 100),
                        !.generationOffset = switchPoint,
                        !.phase = 2]
                previous == [schedule |-> bestIndividual.schedule,
                             fitness |-> gaResult.fitness]
            IN  /\ params' = secondPhaseParams
                /\ \E c \in ContinueFrom(heap, <<previous>>,
                                         secondPhaseParams.populationSize) :
                      /\ heap' = c.heap
                      /\ population' = c.population
                      /\ gaPc' = IF c.crashed THEN "crashed" ELSE "populate"
       ELSE /\ gaPc' = "returned"
            /\ UNCHANGED <<params, heap, population>>
    /\ UNCHANGED <<newPopulation, bestIndividual, generation, stagnationCount,
                   currentMutationRate, lastBestFitness, generationData, gaProgressLog,
                   gaResult, elitesBefore, cspVars, strategyFrame>>

\* `return result` after continueOptimization
AdaptiveReturn ==
    /\ gaPc = "done"
    /\ params.phase = 2
    /\ gaPc' = "returned"
    /\ UNCHANGED <<params, heap, population, newPopulation, bestIndividual, generation,
                   stagnationCount, currentMutationRate, lastBestFitness, generationData,
                   gaProgressLog, gaResult, elitesBefore, cspVars, strategyFrame>>

NextAdaptive ==
    \/ AdaptiveStart \/ InitializeCsp \/ Propagate \/ Search
    \/ ReturnAssignment \/ ReturnRelaxed
    \/ AdaptiveSeed \/ Populate \/ BeginEvolution
    \/ GenStart \/ Fill \/ GenEnd \/ ReturnBest
    \/ AdaptiveSwitch \/ AdaptiveReturn

SpecAdaptive == InitAdaptive /\ [][NextAdaptive]_vars

\* both phases of the adaptive strategy ran and the result was returned
BothPhasesRan == gaPc = "returned" /\ params.phase = 2

\* C23: the generationData of the result the adaptive strategy returns holds
\* one record for every generation executed in the run, both phases together,
\* numbered continuously from 0, and the run executes no more than
\* params.generations generations
C23_AdaptiveGenerationData ==
    gaPc = "returned" =>
        /\ Len(gaResult.generationData) = Len(gaProgressLog)
        /\ \A k \in 1..Len(gaResult.generationData) :
              gaResult.generationData[k].generation = k - 1
        /\ Len(gaProgressLog) <= params.passed.generations

-----------------------------------------------------------------------------
(* GeneticAlgorithm.selection(population, eliteSize) on a given population.  *)

MaxSelectPop == 3

\* rouletteWheelSelection returns an element of adjustedPopulation: a copy of
\* the individual whose fitness is fitness - minFitness + 1 (times FitnessScale);
\* every element has a positive share of the wheel
rouletteWheelSelection(pop) ==
    LET minFitness == CHOOSE f \in {pop[k].fitness : k \in 1..Len(pop)} :
                         \A k \in 1..Len(pop) : f <= pop[k].fitness
    IN  { [pop[k] EXCEPT !.fitness = pop[k].fitness - minFitness + FitnessScale]
          : k \in 1..Len(pop) }

\* tournamentSelection: the best of tournamentSize draws with replacement, the
\* first drawn among equals; every individual wins the tournament of its own draws
tournamentSelection(pop) == { pop[k] : k \in 1..Len(pop) }

\* the lists selection can return for the sorted population
selection(sorted, eliteSize) ==
    LET n == Len(sorted)
        elite == SubSeq(sorted, 1, Min(eliteSize, n))
        halfRemaining == (n - eliteSize) \div 2
        nt == Max(halfRemaining, 0)
        nr == Max(n - Len(elite) - nt, 0)
    IN  { elite \o t \o r :
            t \in [1..nt -> tournamentSelection(sorted)],
            r \in [1..nr -> rouletteWheelSelection(sorted)] }

InitSelection ==
    /\ timeSlots = EvoSlots
    /\ teachers = GaTeachers(AvailableAtAll(EvoSlots), AvailableAtAll(EvoSlots))
    /\ rooms = EvoRooms
    /\ courses = EvoCourses
    /\ subjects = Prefix(SubjectPool, 1)
    /\ semesterParity = ""
    /\ OptIdle
    /\ CspIdle
    /\ AuxIdle
    /\ repairInput = <<>> /\ repairRuns = <<>>
    /\ gaPc = "selection"
    /\ \E n \in 1..MaxSelectPop :
          /\ \E e \in 0..n :
                params = [populationSize |-> n, generations |-> 1, mutationRate |-> 10,
                          crossoverRate |-> 80, eliteSize |-> e, generationOffset |-> 0]
          /\ \E m \in 0..Min(n, MaxParentLen) :
                /\ heap \in GaSchedules(m, EvoSlots)
                /\ population \in
                      { [k \in 1..n |->
                           IF first[k] = 0
                           THEN [schedule |-> <<>>, fitness |-> calculateFitness(<<>>)]
                           ELSE [schedule |-> <<first[k]>>,
                                 fitness |-> calculateFitness(<<heap[first[k]]>>)]]
                        : first \in {f \in [1..n -> 0..m] :
                                        \A j \in 1..m : \E k \in 1..n : f[k] = j} }
    /\ newPopulation = <<>>
    /\ bestIndividual = <<>>
    /\ generation = 0
    /\ stagnationCount = 0
    /\ currentMutationRate = 0
    /\ lastBestFitness = 0
    /\ bestBefore = 0
    /\ generationData = <<>>
    /\ gaProgressLog = <<>>
    /\ gaResult = NoResult
    /\ elitesBefore = <<>>

\* selected = selection(population, params.eliteSize); population is sorted in place
Select ==
    /\ gaPc = "selection"
    /\ population' = SortByFitness(population)
    /\ newPopulation' \in selection(SortByFitness(population), params.eliteSize)
    /\ gaPc' = "selected"
    /\ UNCHANGED <<params, heap, bestIndividual, generation, stagnationCount,
                   currentMutationRate, lastBestFitness, generationData, gaProgressLog,
                   gaResult, elitesBefore, evoFrame>>

SpecSelection == InitSelection /\ [][Select]_vars

\* selection has returned a list with an individual past the elite
SelectedPastElite == gaPc = "selected" /\ params.eliteSize < Len(population)

\* C24: selection returns population.length individuals, the first eliteSize
\* of them the individuals of highest fitness, and every returned individual
\* is an individual of the input with its schedule and its fitness
C24_SelectionReturnsInputIndividuals ==
    gaPc = "selected" =>
        /\ Len(newPopulation) = Len(population)
        /\ SubSeq(newPopulation, 1, params.eliteSize)
              = SubSeq(population, 1, params.eliteSize)
        /\ \A k \in 1..Len(newPopulation) :
              \E m \in 1..Len(population) : newPopulation[k] = population[m]

-----------------------------------------------------------------------------
\* runGeneticEvolution has returned a result after at least one generation
ReturnedAfterGeneration == gaPc = "done" /\ Len(gaResult.generationData) > 0

\* C25: the result runGeneticEvolution returns is self-consistent: its fitness
\* is calculateFitness of its schedule as returned, and it is at least every
\* best fitness reported to onProgress during the run
C25_ResultSelfConsistent ==
    gaPc = "done" =>
        /\ gaResult.fitness = calculateFitness(gaResult.schedule)
        /\ \A k \in 1..Len(gaProgressLog) :
              gaResult.fitness >= gaProgressLog[k].bestFitness

-----------------------------------------------------------------------------
\* the progress values of the calls of onProgress are fractions <<num, den>>
ProgressAtMost(p, q) == p[1] * q[2] <= q[1] * p[2]

\* C26: within one run the progress percentage passed to onProgress never
\* decreases from one call to the next and stays within 0..100
C26_ProgressMonotone ==
    /\ \A k \in 1..Len(gaProgressLog) :
          /\ ProgressAtMost(<<0, 1>>, gaProgressLog[k].progress)
          /\ ProgressAtMost(gaProgressLog[k].progress, <<100, 1>>)
    /\ \A k \in 1..(Len(gaProgressLog) - 1) :
          ProgressAtMost(gaProgressLog[k].progress, gaProgressLog[k + 1].progress)

-----------------------------------------------------------------------------
\* a slot at which a session of the subject could still be placed for the
\* section when optimize returns: a qualified teacher, a room of the subject's
\* type and the section are free
StillPlaceable(course, section, subject) ==
    \E k \in 1..Len(timeSlots) :
        /\ \E d \in 1..Len(dayOrder) : dayOrder[d] = timeSlots[k].day
        /\ Len(availableTeachers(course, [subject |-> subject], timeSlots[k])) > 0
        /\ Len(FreeRooms([subject |-> subject], timeSlots[k])) > 0
        /\ SectionKey(course.id, section, timeSlots[k]) \notin occupiedBySection

\* C27: demand units of one section do not block each other: a subject of a
\* (course, section) that can be placed on some day and slot gets at least one
\* session, whatever happens to the subjects listed before it
C27_DemandUnitsDoNotBlock ==
    (pc = "done" /\ result.kind = "result") =>
        \A c \in 1..Len(courses) :
            \A s \in 1..Len(SectionsOf(courses[c])) :
                \A j \in 1..Len(courseIdToSubjects(courses[c].id)) :
                    LET section == SectionsOf(courses[c])[s]
                        subject == courseIdToSubjects(courses[c].id)[j]
                    IN  StillPlaceable(courses[c], section, subject) =>
                            \E k \in 1..Len(result.schedule) :
                                /\ result.schedule[k].courseId = courses[c].id
                                /\ result.schedule[k].section = section
                                /\ result.schedule[k].subjectId = subject.id

-----------------------------------------------------------------------------
\* the assignment uses a teacher qualified for it and a room of the subject's type
QualifiedAndTyped(cls) ==
    /\ \E t \in 1..Len(teachers) :
          /\ teachers[t].id = cls.teacherId
          /\ \/ cls.subjectId \in teachers[t].taughtSubjectIds
             \/ teachers[t].departmentCourseId = cls.courseId
    /\ \E r \in 1..Len(rooms) :
          /\ rooms[r].id = cls.roomId
          /\ \E j \in 1..Len(subjects) :
                subjects[j].id = cls.subjectId /\ rooms[r].type = subjects[j].type

\* the slot of the assignment is listed in the availability of its teacher
\* for the slot's day
WithinAvailability(cls) ==
    \E t \in 1..Len(teachers) :
        /\ teachers[t].id = cls.teacherId
        /\ \E avail \in teachers[t].availability :
              avail.day = cls.day /\ cls.timeSlotId \in avail.timeSlots

\* C28: every assignment optimize returns uses a qualified teacher, a room of
\* the subject's type and a slot listed in that teacher's availability for
\* the slot's day
C28_AssignmentsRespectTeachers ==
    (pc = "done" /\ result.kind = "result") =>
        \A k \in 1..Len(result.schedule) :
            QualifiedAndTyped(result.schedule[k]) /\ WithinAvailability(result.schedule[k])

-----------------------------------------------------------------------------
(* CPSATSolver.detectConflicts and GeneticAlgorithm.detectConflicts applied  *)
(* to the same schedule.                                                    *)

InitDetect ==
    /\ timeSlots = FitnessSlots
    /\ \E av2 \in {{}, AvailableAtAll(FitnessSlots)} :
          teachers = GaTeachers(AvailableAtAll(FitnessSlots), av2)
    /\ rooms = RoomPool
    /\ courses = EvoCourses
    /\ subjects = Prefix(SubjectPool, 1)
    /\ semesterParity = ""
    /\ evalSchedules \in
          { <<schedule>> : schedule \in UNION {GaSchedules(n, timeSlots) : n \in 0..MaxEvalLen} }
    /\ evalFitness = <<>>
    /\ constructedWith = <<>> /\ callerWrites = 0
    /\ detected = <<>>
    /\ AppIdle
    /\ OptIdle
    /\ repairInput = <<>> /\ repairRuns = <<>>
    /\ EvoIdle
    /\ CspIdle

\* the two detectors are called with the schedule
Detect ==
    /\ detected = <<>>
    /\ detected' = <<cpsatDetectConflicts(evalSchedules[1]), detectConflicts(evalSchedules[1])>>
    /\ UNCHANGED <<evalSchedules, evalFitness, constructedWith, callerWrites, appVars,
                   inputVars, optVars, repairInput, repairRuns, evoVars, cspVars>>

SpecDetect == InitDetect /\ [][Detect]_vars

\* the schedule uses only slots that start before they end
OnProperSlots(schedule) ==
    \A k \in 1..Len(schedule) : schedule[k].startTime < schedule[k].endTime

\* C29: the two conflict detectors agree: CPSATSolver.detectConflicts reports
\* no conflict for a schedule exactly when GeneticAlgorithm.detectConflicts
\* reports none
C29_DetectorsAgree ==
    (detected # <<>> /\ OnProperSlots(evalSchedules[1])) =>
        (detected[1] = <<>> <=> detected[2] = <<>>)

-----------------------------------------------------------------------------
(* The App component: the user submits the form (handleDataSubmit ->         *)
(* startOptimization), navigates with the two NavButtons, and the timers of  *)
(* the running optimize calls fire.  A run is a call of startOptimization;   *)
(* its result is named by its index in runs (0: null / empty).               *)

MaxRuns == 2

AppViews == {"input", "results"}

\* NavButton onClick: setCurrentView(id); the Results button is disabled
\* while optimizationData is null
Navigate ==
    /\ \E id \in AppViews :
          /\ id = "input" \/ app.optimizationData # 0
          /\ app' = [app EXCEPT !.currentView = id]
    /\ UNCHANGED <<runs, evalSchedules, evalFitness, constructedWith, callerWrites,
                   detected, inputVars, optVars, repairInput, repairRuns, evoVars, cspVars>>

\* Generate Timetable on the Data Input view (enabled when the form holds a
\* course, a teacher and a room): handleDataSubmit, then startOptimization up
\* to the first await of optimize, which has called onProgress(0, 0, 50)
Submit ==
    /\ app.currentView = "input"
    /\ Len(runs) < MaxRuns
    /\ app' = [app EXCEPT !.optimizationData = Len(runs) + 1,
                          !.isOptimizing = TRUE,
                          !.progress = 0,
                          !.generation = 0,
                          !.bestFitness = 50,
                          !.generationData = 0,
                          !.currentView = "results"]
    /\ runs' = Append(runs, [data |-> Len(runs) + 1, i |-> 0, settled |-> FALSE])
    /\ UNCHANGED <<evalSchedules, evalFitness, constructedWith, callerWrites,
                   detected, inputVars, optVars, repairInput, repairRuns, evoVars, cspVars>>

\* the 100 ms timer of run r fires; timers of equal delay fire in the order
\* they were set, so a run never overtakes a run started before it.  After
\* i = 100 the loop ends, optimize returns and startOptimization continues:
\* setOptimizationResult, setGenerationData, finally setIsOptimizing(false)
TimerFires ==
    /\ \E r \in 1..Len(runs) :
          /\ ~runs[r].settled
          /\ \A a \in 1..(r - 1) : runs[a].settled \/ runs[a].i > runs[r].i
          /\ IF runs[r].i < 100
             THEN /\ runs' = [runs EXCEPT ![r].i = @ + 10]
                  /\ app' = [app EXCEPT !.progress = runs[r].i + 10,
                                        !.generation = (runs[r].i + 10) \div 10,
                                        !.bestFitness = 50 + (runs[r].i + 10) * 5]
             ELSE /\ runs' = [runs EXCEPT ![r].settled = TRUE]
                  /\ app' = [app EXCEPT !.optimizationResult = r,
                                        !.generationData = r,
                                        !.isOptimizing = FALSE]
    /\ UNCHANGED <<evalSchedules, evalFitness, constructedWith, callerWrites,
                   detected, inputVars, optVars, repairInput, repairRuns, evoVars, cspVars>>

InitApp ==
    /\ timeSlots = <<>> /\ courses = <<>> /\ subjects = <<>>
    /\ teachers = <<>> /\ rooms = <<>> /\ semesterParity = ""
    /\ OptIdle
    /\ GaIdle

NextApp == Navigate \/ Submit \/ TimerFires

SpecApp == InitApp /\ [][NextApp]_vars

\* every started run has settled
AllRunsSettled == runs # <<>> /\ \A r \in 1..Len(runs) : runs[r].settled

\* C30: isOptimizing is true whenever a started optimize call has not yet
\* settled, and once every run has settled the displayed optimizationResult
\* is the result of the most recently started run
C30_OptimizingWhileRunsInFlight ==
    /\ (\E r \in 1..Len(runs) : ~runs[r].settled) => app.isOptimizing
    /\ AllRunsSettled => app.optimizationResult = Len(runs)

====
